---- MODULE Spec2Model ----
(***************************************************************************)
(* The two algorithms of the starter, each as a state machine:             *)
(*                                                                         *)
(*  - the bracket-button remark plugin, tools/remark/remark-parse-buttons  *)
(*    .mjs.  Strings are sequences of one-character strings, so that the   *)
(*    regular expression, split and trim are computed character by         *)
(*    character.  The syntax tree lives in a heap of node objects (a       *)
(*    sequence indexed by object identity) whose `children` hold           *)
(*    identities: the plugin mutates `parent.children[index]` in place     *)
(*    while unist-util-visit keeps walking the node objects it holds.      *)
(*                                                                         *)
(*  - the sequence grouper, groupBySequence of src/components/utils.ts,    *)
(*    with its caller FeaturesGrid: one step per window of the loop.       *)
(***************************************************************************)
EXTENDS Integers, Sequences, FiniteSets, TLC

VARIABLES
    input,   \* the tree handed to the transformer, as a value (never changes)
    src,     \* how the link text of `input` was written: label and props pieces
    heap,    \* the node objects; heap[id] is the object with identity id
    root,    \* identity of the tree's root object
    stack,   \* unist-util-visit's recursion: <<[id, off]>>, innermost last
    status,  \* "ready" | "running" | "done" | "threw"
    pass,    \* 1: first run of the transformer, 2: run on its own output
    out1,    \* the tree as the first run left it
    visited, \* the places, in the order of the calls, of the nodes the visitor
             \* was called with in this run: a place is the path of child
             \* indexes (from 1) the walk took from the root
    childrenProp,  \* groupBySequence: the children (props.children) it is called with
    seq,       \* groupBySequence: the pattern it is called with
    elements,  \* Children.toArray(children)
    idx,       \* the loop variable i: start of the next window, from 0
    groups,    \* the groups pushed so far
    gstatus,   \* "idle" | "called" | "looping" | "returned" | "threw"
    thrown,    \* the exception groupBySequence threw, NoError before
    cards,     \* what FeaturesGrid rendered: one FeatureCard per group
    components,  \* withDisplayNames: the record it is given, as its entries
                 \* [key, fn] in the order of Object.keys; fn is the identity
                 \* of a function object
    fns,         \* the function objects of the components
    applied,     \* how many times withDisplayNames has been applied
    returned,    \* what withDisplayNames returned last, NoRecord before
    content,     \* parseMarkdownContent: the children it is called with
    childIdx,    \* how many children React.Children.forEach has handed over
    result,      \* the `result` object: title, description, links, remaining;
                 \* a property is <<>> when unset and <<value>> when set
    remainingElements,  \* the local array of the same name
    pstatus,     \* "idle" | "called" | "each" | "returned"
    contentDir,  \* routing: the listing of the content directory
    staticParams,  \* what generateStaticParams returned, <<>> before
    params,      \* the path of the params Page was last called with
    imported,    \* the place of the file Page imported, <<>> before
    rstatus,     \* "idle" | "build" | "generated" | "rendered"
    headerChildren,  \* Header: its children prop
    isMenuOpen,  \* the state of useState
    rendered,    \* what the last render of Header returned
    clicks,      \* how many clicks the hamburger button has taken
    hstatus      \* "idle" | "created" | "mounted"

\* The variables of the transformer and those of the grouper.
tvars == <<input, src, heap, root, stack, status, pass, out1, visited>>
gvars == <<childrenProp, seq, elements, idx, groups, gstatus, thrown, cards>>

\* The variables of withDisplayNames.
nvars == <<components, fns, applied, returned>>

\* The variables of the operations other than the transformer and the
\* grouper, and for each of these operations the variables of the others.
\* The variables of parseMarkdownContent.
cvars == <<content, childIdx, result, remainingElements, pstatus>>

\* The variables of generateStaticParams and Page.
rvars == <<contentDir, staticParams, params, imported, rstatus>>

\* The variables of Header.
hvars == <<headerChildren, isMenuOpen, rendered, clicks, hstatus>>

xvars == <<nvars, cvars, rvars, hvars>>

vars == <<tvars, gvars, xvars>>

----------------------------------------------------------------------------
(* JavaScript values *)

\* The value `undefined`; every string is a sequence of single characters,
\* so no string equals it.
Undefined == <<"undefined">>

\* `null`, as returned by String.prototype.match and by the extractor.
Null == [isNull |-> TRUE]

\* ToBoolean of a string-or-undefined value: undefined and "" are falsy.
Truthy(v) == v # Undefined /\ v # <<>>

\* Property read: a missing property reads as undefined.
Get(obj, f) == IF f \in DOMAIN obj THEN obj[f] ELSE Undefined

\* WhiteSpace and LineTerminator code points String.prototype.trim strips
\* (those that occur in the model's alphabet).
IsWhiteSpace(c) == c \in {" ", "\t", "\n", "\r"}

\* Code points the regular expression's `.` does not match.
IsLineTerminator(c) == c \in {"\n", "\r"}

RECURSIVE trimStart(_)
trimStart(s) ==
    IF s # <<>> /\ IsWhiteSpace(Head(s)) THEN trimStart(Tail(s)) ELSE s

RECURSIVE trimEnd(_)
trimEnd(s) ==
    IF s # <<>> /\ IsWhiteSpace(s[Len(s)])
    THEN trimEnd(SubSeq(s, 1, Len(s) - 1))
    ELSE s

\* String.prototype.trim
trim(s) == trimEnd(trimStart(s))

\* String.prototype.split with a one-character separator and no limit:
\* every occurrence of the separator cuts; "" splits into <<"">>.
RECURSIVE split(_, _)
split(s, sep) ==
    IF \A i \in 1..Len(s) : s[i] # sep
    THEN <<s>>
    ELSE LET i == CHOOSE i \in 1..Len(s) :
                      s[i] = sep /\ \A j \in 1..(i - 1) : s[j] # sep
         IN  <<SubSeq(s, 1, i - 1)>> \o split(SubSeq(s, i + 1, Len(s)), sep)

----------------------------------------------------------------------------
(* The props object: an ordinary object, held as its own-property list in   *)
(* the order Object.entries reports it.                                     *)

Digits == <<"0", "1", "2", "3", "4", "5", "6", "7", "8", "9">>

IsDigit(c) == \E i \in DOMAIN Digits : Digits[i] = c

DigitVal(c) == (CHOOSE i \in DOMAIN Digits : Digits[i] = c) - 1

RECURSIVE NumVal(_)
NumVal(k) ==
    IF k = <<>> THEN 0
    ELSE NumVal(SubSeq(k, 1, Len(k) - 1)) * Len(Digits) + DigitVal(k[Len(k)])

\* A property key that is an array index: a canonical numeric string.  (The
\* keys of the model have fewer than ten digits, hence are below 2^32 - 1.)
IsArrayIndex(k) ==
    /\ k # <<>>
    /\ \A i \in 1..Len(k) : IsDigit(k[i])
    /\ (Len(k) = 1 \/ k[1] # "0")

\* Where a new key goes in the own-property order: array indices first, in
\* ascending numeric order, then the other string keys in creation order.
InsertAt(props, k) ==
    IF IsArrayIndex(k)
    THEN Cardinality({i \in 1..Len(props) :
             IsArrayIndex(props[i].key) /\ NumVal(props[i].key) < NumVal(k)}) + 1
    ELSE Len(props) + 1

\* props[k] = v: an existing key keeps its place and takes the new value.
PropsSet(props, k, v) ==
    IF \E i \in 1..Len(props) : props[i].key = k
    THEN [i \in 1..Len(props) |->
             IF props[i].key = k THEN [key |-> k, value |-> v] ELSE props[i]]
    ELSE LET at == InsertAt(props, k)
         IN  SubSeq(props, 1, at - 1) \o <<[key |-> k, value |-> v]>>
                 \o SubSeq(props, at, Len(props))

----------------------------------------------------------------------------
(* remark-parse-buttons.mjs *)

\* A variant that asks only for a key, so a piece without "=" sets an empty
\* prop instead of being dropped.
ParsePairKeyOnly(props, pair) ==
    LET parts == split(pair, "=")
        key   == parts[1]
        value == IF Len(parts) >= 2 THEN parts[2] ELSE <<>>
    IN  IF Truthy(key)
        THEN PropsSet(props, trim(key), trim(value))
        ELSE props

\* The callback of propsString.split(',').forEach, on one piece: split on
\* every "=", keep the first two parts, store the pair if both are truthy
\* before trimming.
ParsePair(props, pair) ==
    LET parts == split(pair, "=")
        key   == parts[1]
        value == IF Len(parts) >= 2 THEN parts[2] ELSE Undefined
    IN  IF Truthy(key) /\ Truthy(value)
        THEN PropsSet(props, trim(key), trim(value))
        ELSE props

RECURSIVE ForEachPair(_, _)
ForEachPair(props, pairs) ==
    IF pairs = <<>> THEN props
    ELSE ForEachPair(ParsePair(props, Head(pairs)), Tail(pairs))

parseCommaDelimitedProps(propsString) ==
    IF ~Truthy(propsString) THEN <<>>
    ELSE ForEachPair(<<>>, split(propsString, ","))

\* A variant without the anchors and brackets: any non-empty text matches.
BracketMatchUnanchored(linkText) ==
    IF Len(linkText) < 1 THEN Null
    ELSE [g1 |-> linkText, g2 |-> Undefined]

\* A variant that splits at the first "|" wherever it stands.
BracketMatchFirstPipe(linkText) ==
    LET len == Len(linkText)
        ps  == {p \in 2..(len - 1) : linkText[p] = "|"}
    IN  IF len < 3 \/ linkText[1] # "[" \/ linkText[len] # "]" THEN Null
        ELSE IF ps = {} THEN [g1 |-> SubSeq(linkText, 2, len - 1), g2 |-> Undefined]
        ELSE LET p == CHOOSE p \in ps : \A q \in ps : p <= q
             IN  [g1 |-> SubSeq(linkText, 2, p - 1),
                  g2 |-> SubSeq(linkText, p + 1, len - 1)]

\* linkText.match(/^\[(.+?)(?:\|(.+?))?\]$/): null, or the two groups.
\* The text must open with "[" and close with "]" with no line terminator
\* between; group 1 is lazy, so it takes the fewest characters n (at least
\* one) after which the rest matches: either "|", a group 2 of at least one
\* character and the closing bracket, or the closing bracket alone.
BracketMatch(linkText) ==
    LET len == Len(linkText)
        Ends(n) == n + 2 = len
        Pipe(n) == n + 2 <= len - 2 /\ linkText[n + 2] = "|"
        ns == {n \in 1..(len - 2) : Pipe(n) \/ Ends(n)}
    IN  IF \/ len < 3
           \/ linkText[1] # "["
           \/ linkText[len] # "]"
           \/ \E i \in 2..(len - 1) : IsLineTerminator(linkText[i])
        THEN Null
        ELSE LET n == CHOOSE n \in ns : \A m \in ns : n <= m
             IN  [g1 |-> SubSeq(linkText, 2, n + 1),
                  g2 |-> IF Pipe(n) THEN SubSeq(linkText, n + 3, len - 1)
                         ELSE Undefined]

\* A variant that keeps the white space around the button text.
extractButtonSyntaxUntrimmed(linkText) ==
    LET bracketMatch == BracketMatch(linkText)
    IN  IF bracketMatch = Null THEN Null
        ELSE [text  |-> bracketMatch.g1,
              props |-> parseCommaDelimitedProps(bracketMatch.g2)]

extractButtonSyntaxFromDoubleBrackets(linkText) ==
    LET bracketMatch == BracketMatch(linkText)
    IN  IF bracketMatch = Null THEN Null
        ELSE [text  |-> trim(bracketMatch.g1),
              props |-> parseCommaDelimitedProps(bracketMatch.g2)]

Attribute(name, value) ==
    [type |-> "mdxJsxAttribute", name |-> name, value |-> value]

hrefName == <<"h", "r", "e", "f">>

\* A variant that leaves the produced node tagged as a link.
createMdxButtonElementAsLink(buttonSyntax, href) ==
    [type       |-> "link",
     name       |-> "Button",
     attributes |-> <<Attribute(hrefName, href)>>
                      \o [i \in 1..Len(buttonSyntax.props) |->
                            Attribute(buttonSyntax.props[i].key,
                                      buttonSyntax.props[i].value)],
     children   |-> <<[type |-> "text", value |-> buttonSyntax.text]>>]

\* A variant that builds each attribute with key and value swapped.
createMdxButtonElementSwapped(buttonSyntax, href) ==
    [type       |-> "mdxJsxTextElement",
     name       |-> "Button",
     attributes |-> <<Attribute(hrefName, href)>>
                      \o [i \in 1..Len(buttonSyntax.props) |->
                            Attribute(buttonSyntax.props[i].value,
                                      buttonSyntax.props[i].key)],
     children   |-> <<[type |-> "text", value |-> buttonSyntax.text]>>]

createMdxButtonElement(buttonSyntax, href) ==
    [type       |-> "mdxJsxTextElement",
     name       |-> "Button",
     attributes |-> <<Attribute(hrefName, href)>>
                      \o [i \in 1..Len(buttonSyntax.props) |->
                            Attribute(buttonSyntax.props[i].key,
                                      buttonSyntax.props[i].value)],
     children   |-> <<[type |-> "text", value |-> buttonSyntax.text]>>]

----------------------------------------------------------------------------
(* The tree: node objects in a heap *)

HasChildren(node) == "children" \in DOMAIN node

\* Objects for the tree value n and all its descendants, appended to heap h;
\* the object of n itself is the last one, Len(Alloc(h, n)).
RECURSIVE Alloc(_, _)
RECURSIVE AllocAll(_, _, _)
Alloc(h, n) ==
    IF ~HasChildren(n) THEN Append(h, n)
    ELSE LET r == AllocAll(h, n.children, <<>>)
         IN  Append(r.heap, [n EXCEPT !.children = r.ids])

AllocAll(h, kids, ids) ==
    IF kids = <<>> THEN [heap |-> h, ids |-> ids]
    ELSE LET h2 == Alloc(h, Head(kids))
         IN  AllocAll(h2, Tail(kids), Append(ids, Len(h2)))

\* The tree hanging from object id, as a value (what a deep comparison sees).
RECURSIVE TreeOf(_, _)
TreeOf(h, id) ==
    IF ~HasChildren(h[id]) THEN h[id]
    ELSE [h[id] EXCEPT !.children =
             [i \in 1..Len(h[id].children) |-> TreeOf(h, h[id].children[i])]]

\* Array.prototype.indexOf, counted from 1.
IndexOf(children, id) ==
    CHOOSE i \in 1..Len(children) :
        children[i] = id /\ \A j \in 1..(i - 1) : children[j] # id

\* A variant that accepts a link only when the text is its only child.
linkNodeHasTextContentOnlyChild(h, node) ==
    /\ HasChildren(node)
    /\ Len(node.children) = 1
    /\ h[node.children[1]].type = "text"

\* node.children && node.children[0] && node.children[0].type === 'text'
linkNodeHasTextContent(h, node) ==
    /\ HasChildren(node)
    /\ Len(node.children) >= 1
    /\ h[node.children[1]].type = "text"

\* A variant that writes one slot too far (an assignment past the end of a
\* JavaScript array lengthens it).
ReplaceChildOffByOne(children, index, id) ==
    IF index < Len(children) THEN [children EXCEPT ![index + 1] = id]
    ELSE Append(children, id)

\* parent.children[index] = buttonElement
ReplaceChild(children, index, id) == [children EXCEPT ![index] = id]

\* The callback given to visit(tree, 'link', ...), called on link object
\* `node` with the chain of its ancestors' identities (empty for the root,
\* whose parent and index are undefined).  The result is the heap afterwards
\* and whether a TypeError was thrown: by `linkText.match` when the text
\* child has no value, by `parent.children` when there is no parent.
Visitor(h, node, parents) ==
    LET n             == h[node]
        linkText      == Get(h[n.children[1]], "value")
        buttonSyntax  == extractButtonSyntaxFromDoubleBrackets(linkText)
        buttonElement == createMdxButtonElement(buttonSyntax, Get(n, "url"))
        h2            == Alloc(h, buttonElement)
        parent        == parents[Len(parents)]
        index         == IndexOf(h[parent].children, node)
    IN  IF ~linkNodeHasTextContent(h, n) THEN [heap |-> h, threw |-> FALSE]
        ELSE IF linkText = Undefined THEN [heap |-> h, threw |-> TRUE]
        ELSE IF buttonSyntax = Null THEN [heap |-> h, threw |-> FALSE]
        ELSE IF parents = <<>> THEN [heap |-> h, threw |-> TRUE]
        ELSE [heap  |-> [h2 EXCEPT ![parent].children =
                                       ReplaceChild(@, index, Len(h2))],
              threw |-> FALSE]

\* unist-util-visit's test for 'link' followed by the call of the visitor.
VisitNode(h, node, parents) ==
    IF h[node].type = "link" THEN Visitor(h, node, parents)
    ELSE [heap |-> h, threw |-> FALSE]

Parents(stk) == [i \in 1..Len(stk) |-> stk[i].id]

Top == stack[Len(stack)]

\* The place of the child the walk has just moved onto: the index of the
\* child taken in every node of the recursion, outermost first.
PlaceOf(stk) == [i \in 1..Len(stk) |-> stk[i].off]

\* The transformer is called: the root is tested and visited (no parent),
\* then the walk descends into its children if it has any.
Start ==
    /\ status = "ready"
    /\ LET r == VisitNode(heap, root, <<>>)
       IN  /\ heap' = r.heap
           /\ visited' = IF heap[root].type = "link" THEN <<<<>>>> ELSE <<>>
           /\ IF r.threw
              THEN status' = "threw" /\ stack' = <<>>
              ELSE IF HasChildren(r.heap[root])
              THEN status' = "running" /\ stack' = <<[id |-> root, off |-> 0]>>
              ELSE status' = "done" /\ stack' = <<>>
    /\ UNCHANGED <<input, src, root, pass, out1>>
    /\ UNCHANGED gvars
    /\ UNCHANGED xvars

\* A variant of the walk that, after a visit that wrote into the tree, moves
\* on by two children.
VisitSkipAfterWrite ==
    /\ status = "running"
    /\ Top.off < Len(heap[Top.id].children)
    /\ LET child == heap[Top.id].children[Top.off + 1]
           r     == VisitNode(heap, child, Parents(stack))
           moved == [stack EXCEPT ![Len(stack)].off = @ + 1]
           after == [stack EXCEPT ![Len(stack)].off =
                                      IF r.heap = heap THEN @ + 1 ELSE @ + 2]
       IN  /\ heap' = r.heap
           /\ visited' = IF heap[child].type = "link"
                         THEN Append(visited, PlaceOf(moved))
                         ELSE visited
           /\ IF r.threw
              THEN status' = "threw" /\ stack' = stack
              ELSE /\ status' = "running"
                   /\ stack' = IF HasChildren(r.heap[child])
                               THEN Append(after, [id |-> child, off |-> 0])
                               ELSE after
    /\ UNCHANGED <<input, src, root, pass, out1>>
    /\ UNCHANGED gvars
    /\ UNCHANGED xvars

\* The walk takes the next child of the innermost node it is in: the child
\* is tested and visited, the offset moves on, and the walk descends into the
\* child object if it has children (the object visited, also when the
\* visitor has just replaced it in its parent).
Visit ==
    /\ status = "running"
    /\ Top.off < Len(heap[Top.id].children)
    /\ LET child == heap[Top.id].children[Top.off + 1]
           r     == VisitNode(heap, child, Parents(stack))
           moved == [stack EXCEPT ![Len(stack)].off = @ + 1]
       IN  /\ heap' = r.heap
           /\ visited' = IF heap[child].type = "link"
                         THEN Append(visited, PlaceOf(moved))
                         ELSE visited
           /\ IF r.threw
              THEN status' = "threw" /\ stack' = stack
              ELSE /\ status' = "running"
                   /\ stack' = IF HasChildren(r.heap[child])
                               THEN Append(moved, [id |-> child, off |-> 0])
                               ELSE moved
    /\ UNCHANGED <<input, src, root, pass, out1>>
    /\ UNCHANGED gvars
    /\ UNCHANGED xvars

\* The children of the innermost node are exhausted: the walk returns to
\* its parent; from the root, the transformer returns.
Leave ==
    /\ status = "running"
    /\ Top.off >= Len(heap[Top.id].children)
    /\ stack' = SubSeq(stack, 1, Len(stack) - 1)
    /\ status' = IF Len(stack) = 1 THEN "done" ELSE "running"
    /\ UNCHANGED <<input, src, heap, root, pass, out1, visited>>
    /\ UNCHANGED gvars
    /\ UNCHANGED xvars

\* The transformer is run once more, on the tree the first run left.
Rerun ==
    /\ status \in {"done", "threw"}
    /\ pass = 1
    /\ pass' = 2
    /\ out1' = TreeOf(heap, root)
    /\ status' = "ready"
    /\ stack' = <<>>
    /\ visited' = <<>>
    /\ UNCHANGED <<input, src, heap, root>>
    /\ UNCHANGED gvars
    /\ UNCHANGED xvars

----------------------------------------------------------------------------
(* The sequence grouper, src/components/utils.ts *)

\* React children.  An element carries its `type`: a string for an
\* intrinsic tag, a function for a component (with its `name` and, when one
\* was assigned, its `displayName`).  A bare string child has no `type`
\* property.
Intrinsic(tag) == [kind |-> "element", type |-> [typeof |-> "string", tag |-> tag]]
Named(name, displayName) ==
    [kind |-> "element",
     type |-> [typeof |-> "function", name |-> name, displayName |-> displayName]]
Unnamed(name) == [kind |-> "element", type |-> [typeof |-> "function", name |-> name]]
TextChild == [kind |-> "text"]
NullChild == [kind |-> "null"]
BoolChild == [kind |-> "boolean"]

\* slice[j] past the end of the slice.
NoElement == [kind |-> "undefined"]

NoError == [name |-> "none"]
TypeError == [name |-> "TypeError"]

\* new Error(`Expected <${tag}> at position ${i + j}, found <${found}>`):
\* the message, by the three values it is written from.
ExpectedError(tag, position, found) ==
    [name |-> "Error", expected |-> tag, position |-> position, found |-> found]

\* typeof el.type, for el an element or a string (whose `type` is undefined).
TypeofType(el) == IF el.kind = "element" THEN el.type.typeof ELSE "undefined"

JsTruthyString(s) == s # ""

\* Children.toArray: null, undefined and booleans are left out, the order is
\* kept, and every element gets a key made from its place among the children.
RECURSIVE toArrayFrom(_, _)
toArrayFrom(kids, n) ==
    IF n > Len(kids) THEN <<>>
    ELSE LET c == kids[n]
         IN  IF c.kind \in {"null", "undefined", "boolean"}
             THEN toArrayFrom(kids, n + 1)
             ELSE IF c.kind = "element"
             THEN <<[kind |-> "element", type |-> c.type, key |-> n - 1]>>
                      \o toArrayFrom(kids, n + 1)
             ELSE <<c>> \o toArrayFrom(kids, n + 1)

toArray(kids) == toArrayFrom(kids, 1)

\* A variant that takes a missing element for a match.
matchesTagAbsent(el, tag) ==
    IF el.kind = "undefined" THEN [threw |-> FALSE, value |-> TRUE]
    ELSE [threw |-> FALSE,
          value |-> \/ TypeofType(el) = "string" /\ el.type.tag = tag
                    \/ /\ TypeofType(el) = "function"
                       /\ "displayName" \in DOMAIN el.type
                       /\ el.type.displayName = tag]

\* matchesTag(el, tag).  Reading el.type of undefined throws a TypeError.
matchesTag(el, tag) ==
    IF el.kind = "undefined" THEN [threw |-> TRUE, value |-> FALSE]
    ELSE [threw |-> FALSE,
          value |-> \/ TypeofType(el) = "string" /\ el.type.tag = tag
                    \/ /\ TypeofType(el) = "function"
                       /\ "displayName" \in DOMAIN el.type
                       /\ el.type.displayName = tag]

\* A variant that reports the element's key in place of its tag.
foundKey(el) ==
    IF el.kind # "element" THEN [threw |-> TRUE, value |-> ""]
    ELSE [threw |-> FALSE, value |-> "key"]

\* The `found` of the error message: the type itself when it is a string,
\* else type.displayName || type.name || "unknown".  For a child without a
\* `type` the read of type.displayName throws a TypeError.
found(el) ==
    IF el.kind # "element" THEN [threw |-> TRUE, value |-> ""]
    ELSE IF TypeofType(el) = "string" THEN [threw |-> FALSE, value |-> el.type.tag]
    ELSE LET t == el.type
             displayName == IF "displayName" \in DOMAIN t THEN t.displayName ELSE ""
             name == IF "name" \in DOMAIN t THEN t.name ELSE ""
         IN  [threw |-> FALSE,
              value |-> IF JsTruthyString(displayName) THEN displayName
                        ELSE IF JsTruthyString(name) THEN name
                        ELSE "unknown"]

\* elements.slice(i, i + seq.length)
slice(els, i, k) ==
    SubSeq(els, i + 1, IF i + k <= Len(els) THEN i + k ELSE Len(els))

\* slice[j], 0-based: undefined past the end.
At(sl, j) == IF j < Len(sl) THEN sl[j + 1] ELSE NoElement

\* seq.forEach((tag, j) => ...) from entry j on: the exception of the first
\* entry that throws, NoError when none does.
RECURSIVE forEachTag(_, _, _, _)
forEachTag(sl, i, pattern, j) ==
    IF j >= Len(pattern) THEN NoError
    ELSE LET tag == pattern[j + 1]
             m   == matchesTag(At(sl, j), tag)
         IN  IF m.threw THEN TypeError
             ELSE IF ~m.value
             THEN LET f == found(At(sl, j))
                  IN  IF f.threw THEN TypeError
                      ELSE ExpectedError(tag, i + j, f.value)
             ELSE forEachTag(sl, i, pattern, j + 1)

\* The length up to which the list of groups is followed: above the number
\* of windows of any list of children with a pattern of length 1 or more.
MaxGroups == 7

\* groupBySequence is entered: the children become an array, the list of
\* groups is empty and the loop starts at 0.
Call ==
    /\ gstatus = "called"
    /\ elements' = toArray(childrenProp)
    /\ groups' = <<>>
    /\ idx' = 0
    /\ gstatus' = "looping"
    /\ UNCHANGED <<childrenProp, seq, thrown, cards>>
    /\ UNCHANGED tvars
    /\ UNCHANGED xvars

\* A variant of the loop body that pushes the window and moves on by one.
WindowOverlapping ==
    /\ gstatus = "looping"
    /\ idx < Len(elements)
    /\ Len(groups) < MaxGroups
    /\ LET sl == slice(elements, idx, Len(seq))
           e  == forEachTag(sl, idx, seq, 0)
       IN  IF e # NoError
           THEN /\ thrown' = e
                /\ gstatus' = "threw"
                /\ UNCHANGED <<groups, idx>>
           ELSE /\ groups' = Append(groups, sl)
                /\ idx' = idx + 1
                /\ gstatus' = "looping"
                /\ UNCHANGED thrown
    /\ UNCHANGED <<childrenProp, seq, elements, cards>>
    /\ UNCHANGED tvars
    /\ UNCHANGED xvars

\* One turn of the loop: the window at i is sliced, every entry of the
\* pattern is checked against it in order, and either the first failing
\* entry throws out of groupBySequence or the window is pushed and i moves
\* on by seq.length (by nothing when the pattern is empty: the loop is then
\* followed for MaxGroups turns).
Window ==
    /\ gstatus = "looping"
    /\ idx < Len(elements)
    /\ Len(groups) < MaxGroups
    /\ LET sl == slice(elements, idx, Len(seq))
           e  == forEachTag(sl, idx, seq, 0)
       IN  IF e # NoError
           THEN /\ thrown' = e
                /\ gstatus' = "threw"
                /\ UNCHANGED <<groups, idx>>
           ELSE /\ groups' = Append(groups, sl)
                /\ idx' = idx + Len(seq)
                /\ gstatus' = "looping"
                /\ UNCHANGED thrown
    /\ UNCHANGED <<childrenProp, seq, elements, cards>>
    /\ UNCHANGED tvars
    /\ UNCHANGED xvars

\* A variant of the return that gives up the last group.
ReturnButLast ==
    /\ gstatus = "looping"
    /\ idx >= Len(elements)
    /\ gstatus' = "returned"
    /\ groups' = IF groups = <<>> THEN groups ELSE SubSeq(groups, 1, Len(groups) - 1)
    /\ UNCHANGED <<childrenProp, seq, elements, idx, thrown, cards>>
    /\ UNCHANGED tvars
    /\ UNCHANGED xvars

\* A variant of the return that throws on an empty list of groups.
ReturnNonEmpty ==
    /\ gstatus = "looping"
    /\ idx >= Len(elements)
    /\ IF groups = <<>>
       THEN gstatus' = "threw" /\ thrown' = TypeError
       ELSE gstatus' = "returned" /\ UNCHANGED thrown
    /\ UNCHANGED <<childrenProp, seq, elements, idx, groups, cards>>
    /\ UNCHANGED tvars
    /\ UNCHANGED xvars

\* The loop condition fails: groupBySequence returns the groups.
Return ==
    /\ gstatus = "looping"
    /\ idx >= Len(elements)
    /\ gstatus' = "returned"
    /\ UNCHANGED <<childrenProp, seq, elements, idx, groups, thrown, cards>>
    /\ UNCHANGED tvars
    /\ UNCHANGED xvars

FeaturesGridSeq == <<"h3", "p">>

\* A variant of the caller that renders the groups pushed before a throw.
FeaturesGridLenient ==
    /\ gstatus \in {"returned", "threw"}
    /\ seq = FeaturesGridSeq
    /\ cards' = groups
    /\ gstatus' = "rendered"
    /\ UNCHANGED <<childrenProp, seq, elements, idx, groups, thrown>>
    /\ UNCHANGED tvars
    /\ UNCHANGED xvars

\* FeaturesGrid: `cards` is what groupBySequence(children, ["h3", "p"])
\* returned, and one FeatureCard is rendered per entry of it.  An exception
\* of groupBySequence leaves FeaturesGrid before `cards` is assigned.
FeaturesGrid ==
    /\ gstatus = "returned"
    /\ seq = FeaturesGridSeq
    /\ cards' = groups
    /\ gstatus' = "rendered"
    /\ UNCHANGED <<childrenProp, seq, elements, idx, groups, thrown>>
    /\ UNCHANGED tvars
    /\ UNCHANGED xvars

----------------------------------------------------------------------------
(* withDisplayNames, src/components/utils.ts *)

NoRecord == <<[key |-> "", fn |-> 0]>>

\* A variant that keeps a displayName a component already has.
withDisplayNamesKeeping(comps, fs) ==
    LET RECURSIVE each(_, _)
        each(n, f) ==
            IF n > Len(comps) THEN f
            ELSE each(n + 1,
                      IF "displayName" \in DOMAIN f[comps[n].fn] THEN f
                      ELSE [f EXCEPT ![comps[n].fn] =
                               [name |-> @.name, displayName |-> comps[n].key]])
    IN  each(1, fs)

\* Object.keys(components).forEach((key) => components[key].displayName =
\* key): the function objects after the assignments, made key by key in the
\* order of Object.keys.
withDisplayNames(comps, fs) ==
    LET RECURSIVE each(_, _)
        each(n, f) ==
            IF n > Len(comps) THEN f
            ELSE each(n + 1,
                      [f EXCEPT ![comps[n].fn] =
                          [name |-> @.name, displayName |-> comps[n].key]])
    IN  each(1, fs)

\* How many applications of withDisplayNames are followed.
MaxApplied == 2

\* withDisplayNames(components) is called, before anything is rendered, and
\* returns the record it was given.
ApplyDisplayNames ==
    /\ applied < MaxApplied
    /\ gstatus = "idle"
    /\ fns' = withDisplayNames(components, fns)
    /\ returned' = components
    /\ applied' = applied + 1
    /\ UNCHANGED components
    /\ UNCHANGED <<tvars, gvars, cvars, rvars, hvars>>

\* <C /> for a component C given as a function object.
ElementOf(f) ==
    IF "displayName" \in DOMAIN f THEN Named(f.name, f.displayName)
    ELSE Unnamed(f.name)

\* An element of components[key] is rendered as the only child of a grid
\* that groups its children by the pattern [key].
UseComponent ==
    /\ gstatus = "idle"
    /\ \E n \in 1..Len(components) :
          /\ childrenProp' = <<ElementOf(fns[components[n].fn])>>
          /\ seq' = <<components[n].key>>
    /\ gstatus' = "called"
    /\ UNCHANGED <<elements, idx, groups, thrown, cards>>
    /\ UNCHANGED <<tvars, nvars, cvars, rvars, hvars>>

----------------------------------------------------------------------------
(* parseMarkdownContent, src/lib/utils.ts *)

\* React nodes.  An element has a type and props, of which `children` (a
\* string, an element, or an array of nodes) and `href` may be missing.
Str(value) == [kind |-> "string", value |-> value]
Num(value) == [kind |-> "number", value |-> value]
Arr(items) == [kind |-> "array", items |-> items]
El(type, props) == [kind |-> "element", type |-> type, props |-> props]
NoNode == [kind |-> "null"]

isValidElement(node) == node.kind = "element"

\* props?.children and props?.href: the property, or NoNode / "" when the
\* element has none.
ChildrenOf(el) == IF "children" \in DOMAIN el.props THEN el.props.children ELSE NoNode
HrefOf(el) == IF "href" \in DOMAIN el.props THEN el.props.href ELSE <<>>

\* extractTextContent(element)
RECURSIVE extractTextContent(_)
extractTextContent(element) ==
    IF element.kind = "string" THEN element.value
    ELSE IF element.kind = "number" THEN element.value
    ELSE IF isValidElement(element)
    THEN LET ch == ChildrenOf(element)
             RECURSIVE joined(_)
             joined(n) ==
                 IF n > Len(ch.items) THEN <<>>
                 ELSE (IF ch.items[n].kind = "string" THEN ch.items[n].value
                       ELSE IF isValidElement(ch.items[n])
                       THEN extractTextContent(ch.items[n])
                       ELSE <<>>) \o joined(n + 1)
         IN  IF ch.kind = "string" THEN ch.value
             ELSE IF ch.kind = "array" THEN joined(1)
             ELSE IF isValidElement(ch) THEN extractTextContent(ch)
             ELSE <<>>
    ELSE <<>>

LinkOf(text, href) == [text |-> text, href |-> href]

\* A node is falsy: null, the empty string (no number of the model is 0).
Falsy(node) == node.kind = "null" \/ (node.kind = "string" /\ node.value = <<>>)

\* extractLinksFromParagraph(paragraph)
extractLinksFromParagraph(paragraph) ==
    LET ch == ChildrenOf(paragraph)
        children == IF ch.kind = "array" THEN ch.items ELSE <<ch>>
        RECURSIVE each(_)
        each(n) ==
            IF n > Len(children) THEN <<>>
            ELSE (IF /\ isValidElement(children[n])
                     /\ children[n].type = "a"
                     /\ HrefOf(children[n]) # <<>>
                  THEN <<LinkOf(extractTextContent(children[n]), HrefOf(children[n]))>>
                  ELSE <<>>) \o each(n + 1)
    IN  IF Falsy(ch) THEN <<>> ELSE each(1)

\* The object {} and the object { links: [] }.
EmptyResult == [title |-> <<>>, description |-> <<>>, links |-> <<>>, remaining |-> <<>>]
FreshResult == [EmptyResult EXCEPT !.links = <<(<<>>)>>]

\* `children` when it is falsy.
NoContent == <<NoNode>>

\* parseMarkdownContent is entered: {} is returned at once for falsy
\* children, else the result starts as { links: [] }.
Parse ==
    /\ pstatus = "called"
    /\ IF content = NoContent
       THEN /\ result' = EmptyResult
            /\ pstatus' = "returned"
       ELSE /\ result' = FreshResult
            /\ pstatus' = "each"
    /\ remainingElements' = <<>>
    /\ childIdx' = 0
    /\ UNCHANGED content
    /\ UNCHANGED <<tvars, gvars, nvars, rvars, hvars>>

\* The links of result.links || [].
LinksOrNone(res) == IF res.links = <<>> THEN <<>> ELSE res.links[1]

\* The callback of React.Children.forEach on the next child.
Each ==
    /\ pstatus = "each"
    /\ childIdx < Len(content)
    /\ childIdx' = childIdx + 1
    /\ LET child   == content[childIdx + 1]
           keep    == /\ remainingElements' = Append(remainingElements, child)
                      /\ UNCHANGED result
           nothing == UNCHANGED <<result, remainingElements>>
           heading == isValidElement(child) /\ child.type \in {"h1", "h2", "h3"}
           unset(v) == v = <<>> \/ v = <<(<<>>)>>
       IN  IF ~isValidElement(child)
           THEN IF child.kind = "string" /\ trim(child.value) # <<>> THEN keep ELSE nothing
           ELSE IF heading /\ unset(result.title)
           THEN /\ result' = [result EXCEPT !.title = <<extractTextContent(child)>>]
                /\ UNCHANGED remainingElements
           ELSE IF child.type = "p" /\ unset(result.description)
           THEN /\ result' = [result EXCEPT !.description = <<extractTextContent(child)>>]
                /\ UNCHANGED remainingElements
           ELSE IF child.type = "p" /\ extractLinksFromParagraph(child) # <<>>
           THEN /\ result' = [result EXCEPT !.links =
                                 <<LinksOrNone(result) \o extractLinksFromParagraph(child)>>]
                /\ UNCHANGED remainingElements
           ELSE IF child.type = "a" /\ HrefOf(child) # <<>>
           THEN /\ result' = [result EXCEPT !.links =
                                 <<Append(LinksOrNone(result),
                                          LinkOf(extractTextContent(child), HrefOf(child)))>>]
                /\ UNCHANGED remainingElements
           ELSE keep
    /\ UNCHANGED <<content, pstatus>>
    /\ UNCHANGED <<tvars, gvars, nvars, rvars, hvars>>

\* After the last child: result.remaining is the array of what was kept, or
\* undefined when nothing was, and the result is returned.
Finish ==
    /\ pstatus = "each"
    /\ childIdx >= Len(content)
    /\ result' = [result EXCEPT !.remaining =
                     IF Len(remainingElements) > 0 THEN <<remainingElements>> ELSE <<>>]
    /\ pstatus' = "returned"
    /\ UNCHANGED <<content, childIdx, remainingElements>>
    /\ UNCHANGED <<tvars, gvars, nvars, rvars, hvars>>

----------------------------------------------------------------------------
(* generateStaticParams and Page, src/app/[...path]/page.tsx *)

\* A directory entry (fs.Dirent): a file, a directory with its own listing,
\* or something else (a symbolic link, a socket).  Names are strings.
FileEntry(name) == [kind |-> "file", name |-> name, entries |-> <<>>]
DirEntry(name, entries) == [kind |-> "dir", name |-> name, entries |-> entries]
OtherEntry(name) == [kind |-> "other", name |-> name, entries |-> <<>>]

Mdx == <<".", "m", "d", "x">>

\* String.prototype.endsWith
endsWith(str, suffix) ==
    /\ Len(str) >= Len(suffix)
    /\ SubSeq(str, Len(str) - Len(suffix) + 1, Len(str)) = suffix

\* A variant that leaves the name as it is.
replaceKeeping(name) == name

\* entry.name.replace(/\.mdx$/, ""): the name without a final .mdx
replace(name) ==
    IF endsWith(name, Mdx) THEN SubSeq(name, 1, Len(name) - Len(Mdx)) ELSE name

\* walk(dir, prefix): readdirSync(dir).flatMap(...)
RECURSIVE walk(_, _)
walk(dir, prefix) ==
    LET RECURSIVE flatMap(_)
        flatMap(n) ==
            IF n > Len(dir) THEN <<>>
            ELSE LET entry == dir[n]
                 IN  (IF entry.kind = "dir"
                      THEN walk(entry.entries, Append(prefix, entry.name))
                      ELSE IF entry.kind = "file" /\ endsWith(entry.name, Mdx)
                      THEN <<[path |-> Append(prefix, replace(entry.name))]>>
                      ELSE <<>>) \o flatMap(n + 1)
    IN  flatMap(1)

\* Array.prototype.join with a one-character separator
RECURSIVE join(_, _)
join(array, sep) ==
    IF array = <<>> THEN <<>>
    ELSE IF Len(array) = 1 THEN array[1]
    ELSE array[1] \o <<sep>> \o join(Tail(array), sep)

Home == <<"h", "o", "m", "e">>

\* The alias under which Page imports the content directory.
ContentAlias == "@/content/"

\* The module specifier of Page: `@/content/${filePath}.mdx`
Specifier(pathParts) ==
    LET filePath == IF Len(pathParts) # 0 THEN join(pathParts, "/") ELSE Home
    IN  <<ContentAlias>> \o filePath \o Mdx

\* No module is found.
NotFound == <<0>>

\* The place (the indexes from the content directory down) of the file a
\* list of path segments names in a listing, NotFound when there is none.
RECURSIVE Lookup(_, _, _)
Lookup(dir, segments, place) ==
    LET wanted == IF Len(segments) = 1 THEN "file" ELSE "dir"
        hits == {n \in 1..Len(dir) : dir[n].name = segments[1] /\ dir[n].kind = wanted}
    IN  IF hits = {} THEN NotFound
        ELSE LET n == CHOOSE n \in hits : TRUE
             IN  IF Len(segments) = 1 THEN Append(place, n)
                 ELSE Lookup(dir[n].entries, Tail(segments), Append(place, n))

\* import(specifier): the alias names the content directory, the rest is a
\* path below it.
Import(dir, specifier) ==
    IF specifier = <<>> \/ specifier[1] # ContentAlias THEN NotFound
    ELSE Lookup(dir, split(Tail(specifier), "/"), <<>>)

\* generateStaticParams()
GenerateStaticParams ==
    /\ rstatus = "build"
    /\ staticParams' = walk(contentDir, <<>>)
    /\ rstatus' = "generated"
    /\ UNCHANGED <<contentDir, params, imported>>
    /\ UNCHANGED <<tvars, gvars, nvars, cvars, hvars>>

\* Page({params}) for one of the generated params (dynamicParams = false:
\* no other route reaches Page).
Page ==
    /\ rstatus \in {"generated", "rendered"}
    /\ \E n \in 1..Len(staticParams) :
        /\ params' = staticParams[n].path
        /\ imported' = Import(contentDir, Specifier(staticParams[n].path))
    /\ rstatus' = "rendered"
    /\ UNCHANGED <<contentDir, staticParams>>
    /\ UNCHANGED <<tvars, gvars, nvars, cvars, hvars>>

----------------------------------------------------------------------------
(* Header, src/components/Header/Header.tsx *)

\* Nothing is rendered yet.
NotRendered == [className |-> <<>>, navContainer |-> <<>>, onClick |-> FALSE]

\* One render of Header with the state isOpen: the class of the nav
\* container, its two children, and the value the onClick closure of this
\* render passes to setIsMenuOpen.
Header(kids, isOpen) ==
    LET array == toArray(kids)
        navElement == IF Len(array) >= 1 THEN array[1] ELSE NoElement
        actionsElement == IF Len(array) >= 2 THEN array[2] ELSE NoElement
    IN  [className |-> <<"navContainer",
                         IF isOpen THEN "navContainerOpen" ELSE "navContainerClosed">>,
         navContainer |-> <<navElement, actionsElement>>,
         onClick |-> ~isOpen]

\* The first render: useState(false).
Mount ==
    /\ hstatus = "created"
    /\ isMenuOpen' = FALSE
    /\ rendered' = Header(headerChildren, FALSE)
    /\ hstatus' = "mounted"
    /\ UNCHANGED <<headerChildren, clicks>>
    /\ UNCHANGED <<tvars, gvars, nvars, cvars, rvars>>

MaxClicks == 3

\* A variant in which the click is not followed by a render.
ClickNoRender ==
    /\ hstatus = "mounted"
    /\ clicks < MaxClicks
    /\ isMenuOpen' = rendered.onClick
    /\ clicks' = clicks + 1
    /\ UNCHANGED <<headerChildren, rendered, hstatus>>
    /\ UNCHANGED <<tvars, gvars, nvars, cvars, rvars>>

\* A click on the hamburger button: the onClick of the last render calls
\* setIsMenuOpen(!isMenuOpen), and React renders the component again with
\* the new state before the next event.
Click ==
    /\ hstatus = "mounted"
    /\ clicks < MaxClicks
    /\ isMenuOpen' = rendered.onClick
    /\ rendered' = Header(headerChildren, rendered.onClick)
    /\ clicks' = clicks + 1
    /\ UNCHANGED <<headerChildren, hstatus>>
    /\ UNCHANGED <<tvars, gvars, nvars, cvars, rvars>>

----------------------------------------------------------------------------
(* Inputs *)

MaxSiblings == 2
MaxPieces == 3

RECURSIVE SeqsUpTo(_, _)
SeqsUpTo(S, n) ==
    IF n = 0 THEN {<<>>}
    ELSE LET shorter == SeqsUpTo(S, n - 1)
         IN  shorter \cup {Append(q, x) : q \in {p \in shorter : Len(p) = n - 1}, x \in S}

Text(value) == [type |-> "text", value |-> value]
Link(url, kids) == [type |-> "link", url |-> url, children |-> kids]
Parent(type, kids) == [type |-> type, children |-> kids]

UrlX == <<"/", "x">>
UrlY == <<"/", "y">>

TextA      == <<"[", "A", "]">>
TextProps  == <<"[", "B", "|", "v", "=", "o", "]">>
TextPlain  == <<"A">>
TextNested == <<"[", "[", "A", "]", "]">>
TextSpaced == <<"[", " ", "A", " ", "]">>

ButtonLink == Link(UrlX, <<Text(TextA)>>)

\* What a paragraph may hold.
Inlines ==
    { Text(<<"x">>),
      [type |-> "html", value |-> <<"<", "b", ">">>],
      ButtonLink,
      Link(UrlY, <<Text(TextProps)>>),
      Link(UrlX, <<Text(TextNested)>>),
      Link(UrlX, <<Text(TextPlain)>>),
      Link(UrlX, <<>>),
      [type |-> "link", url |-> UrlX],
      Link(UrlX, <<Parent("emphasis", <<Text(TextA)>>)>>),
      Link(UrlX, <<Text(TextPlain), Parent("emphasis", <<ButtonLink>>)>>),
      Link(UrlY, <<Text(TextA), ButtonLink>>),
      Link(UrlY, <<Text(TextSpaced), Text(<<"x">>)>>),
      Link(UrlX, <<[type |-> "text"]>>) }

Trees ==
    LET rows == SeqsUpTo(Inlines, MaxSiblings)
    IN  {Parent("root", <<Parent("paragraph", kids)>>) : kids \in rows}
        \cup {Parent("root", <<Parent("blockquote", kids),
                               Parent("paragraph", <<ButtonLink>>)>>) : kids \in rows}
        \cup Inlines
        \cup {[type |-> "root"], Parent("root", <<>>)}

Label == <<"L", "a", "b", "e", "l">>

Labels == {Label, <<" ", "A", " ">>}

\* Comma-separated pieces a props segment is written from.
Pieces ==
    { <<"a", "=", "1">>,
      <<"b", "=", "2">>,
      <<"c", "=", "3">>,
      <<"1", "=", "x">>,
      <<"b", "a", "d">>,
      <<"a", "=", " ">>,
      <<" ", "=", "x">>,
      <<" ", "a", " ", "=", " ", "4", " ">>,
      <<"k", "=", "a", "=", "b">>,
      <<"a", "=">>,
      <<"=", "1">>,
      <<>> }

RECURSIVE Join(_, _)
Join(parts, sep) ==
    IF parts = <<>> THEN <<>>
    ELSE IF Len(parts) = 1 THEN parts[1]
    ELSE parts[1] \o <<sep>> \o Join(Tail(parts), sep)

\* The link text an author writes for a label and props pieces:
\* [label] without pieces, [label|piece,...,piece] with.
Written(s) ==
    IF s.pieces = <<>> THEN <<"[">> \o s.label \o <<"]">>
    ELSE <<"[">> \o s.label \o <<"|">> \o Join(s.pieces, ",") \o <<"]">>

Sources == [label : Labels, pieces : SeqsUpTo(Pieces, MaxPieces)]

NoSource == [label |-> <<>>, pieces |-> <<>>]

MaxChildren == 4

H3 == Intrinsic("h3")
P == Intrinsic("p")

\* The children a grid may be given: intrinsic elements, a component with a
\* displayName, components without one (named and anonymous), a bare string,
\* null and a boolean.
ChildPool ==
    { H3, P, Named("Card", "Card"), Unnamed("Card"), Unnamed(""),
      TextChild, NullChild, BoolChild }

Patterns == { FeaturesGridSeq, <<"Card">>, <<"p", "Card", "h3">> }

InitOn(tree) ==
    /\ input = tree
    /\ heap = Alloc(<<>>, tree)
    /\ root = Len(heap)
    /\ stack = <<>>
    /\ status = "ready"
    /\ pass = 1
    /\ out1 = tree
    /\ visited = <<>>

\* groupBySequence is not called.
GroupIdle ==
    /\ childrenProp = <<>>
    /\ seq = FeaturesGridSeq
    /\ elements = <<>>
    /\ idx = 0
    /\ groups = <<>>
    /\ gstatus = "idle"
    /\ thrown = NoError
    /\ cards = <<>>

\* groupBySequence(kids, pattern) is about to be entered.
GroupOn(kids, pattern) ==
    /\ childrenProp = kids
    /\ seq = pattern
    /\ elements = <<>>
    /\ idx = 0
    /\ groups = <<>>
    /\ gstatus = "called"
    /\ thrown = NoError
    /\ cards = <<>>

\* The own keys of an object written with the entries `written`, in the
\* order of Object.keys: the integer-like key first, the others as written.
IndexKey == "1"

OwnKeyOrder(written) ==
    LET IsIndex(e) == e.key = IndexKey
        IsName(e)  == e.key # IndexKey
    IN  SelectSeq(written, IsIndex) \o SelectSeq(written, IsName)

MaxKeys == 2

ComponentKeys == {"Card", "Tile", IndexKey}

\* Two function objects: named or anonymous, with or without a displayName
\* of their own.
FnObjects ==
    { [name |-> "Card"], [name |-> ""], [name |-> "Tile", displayName |-> "Old"] }

\* Records of up to MaxKeys keys over two components, a component possibly
\* under two keys.
Records ==
    {OwnKeyOrder(w) :
        w \in {v \in SeqsUpTo([key : ComponentKeys, fn : {1, 2}], MaxKeys) :
                  \A i, j \in 1..Len(v) : v[i].key = v[j].key => i = j}}

\* withDisplayNames is not called.
NamesIdle ==
    /\ components = <<>>
    /\ fns = <<>>
    /\ applied = 0
    /\ returned = NoRecord

\* parseMarkdownContent is not called.
ContentIdle ==
    /\ content = <<>>
    /\ childIdx = 0
    /\ result = EmptyResult
    /\ remainingElements = <<>>
    /\ pstatus = "idle"

\* generateStaticParams and Page are not called.
RoutingIdle ==
    /\ contentDir = <<>>
    /\ staticParams = <<>>
    /\ params = <<>>
    /\ imported = <<>>
    /\ rstatus = "idle"

\* No Header is rendered.
HeaderIdle ==
    /\ headerChildren = <<>>
    /\ isMenuOpen = FALSE
    /\ rendered = NotRendered
    /\ clicks = 0
    /\ hstatus = "idle"

OthersIdle == NamesIdle /\ ContentIdle /\ RoutingIdle /\ HeaderIdle

MaxEntries == 3

\* The entries a listing of the content directory may hold: .mdx files
\* (one of them named just .mdx), other files, a symbolic link, and
\* directories, among them an empty one, one named like an .mdx file and
\* one with a directory inside.
EntryPool ==
    { FileEntry(<<"a">> \o Mdx),
      FileEntry(<<"b">> \o Mdx),
      FileEntry(Mdx),
      FileEntry(<<"a", ".", "m", "d">>),
      FileEntry(<<"a">> \o Mdx \o Mdx),
      OtherEntry(<<"s">> \o Mdx),
      DirEntry(<<"e">>, <<>>),
      DirEntry(<<"a">>, <<FileEntry(<<"b">> \o Mdx)>>),
      DirEntry(<<"d">> \o Mdx, <<FileEntry(Mdx), FileEntry(<<"a">>)>>),
      DirEntry(<<"d">>, <<FileEntry(<<"a">> \o Mdx),
                          DirEntry(<<"e">>, <<FileEntry(<<"a">> \o Mdx),
                                              FileEntry(<<"n", ".", "t", "x", "t">>)>>),
                          FileEntry(<<"b">> \o Mdx)>>) }

\* The listings: the names in one directory differ.
Listings ==
    { l \in SeqsUpTo(EntryPool, MaxEntries) :
        \A m, n \in 1..Len(l) : m # n => l[m].name # l[n].name }

MaxContent == 3

Anchor(text, href) == El("a", [children |-> Str(text), href |-> href])

\* The children a page component may be given: headings with and without
\* text, paragraphs with and without text, paragraphs holding an anchor (among other
\* nodes, or alone), anchors with and without href, another element,
\* strings and null.  A heading or a paragraph holding only an image has no
\* text.
ContentPool ==
    { El("h1", [children |-> Str(<<"T">>)]),
      El("h2", [children |-> El("img", [src |-> <<"i">>])]),
      El("h3", [children |-> Str(<<"U">>)]),
      El("p", [children |-> Str(<<"D">>)]),
      El("p", [children |-> El("img", [src |-> <<"i">>])]),
      El("p", [children |-> Arr(<<Str(<<"s">>), Anchor(<<"X">>, <<"/", "x">>)>>)]),
      El("p", [children |-> Anchor(<<"Y">>, <<"/", "y">>)]),
      Anchor(<<"Z">>, <<"/", "z">>),
      El("a", [children |-> Str(<<"N">>)]),
      El("div", [children |-> Str(<<"V">>)]),
      Str(<<"t">>),
      Str(<<" ">>),
      NoNode }

\* The transformer is not called.
TransformIdle ==
    /\ src = NoSource
    /\ input = Parent("root", <<>>)
    /\ heap = Alloc(<<>>, input)
    /\ root = Len(heap)
    /\ stack = <<>>
    /\ status = "idle"
    /\ pass = 1
    /\ out1 = input
    /\ visited = <<>>

\* A call of parseMarkdownContent on some children, or on none.
InitContent ==
    /\ TransformIdle
    /\ GroupIdle
    /\ NamesIdle
    /\ RoutingIdle
    /\ HeaderIdle
    /\ content \in SeqsUpTo(ContentPool, MaxContent) \cup {NoContent}
    /\ childIdx = 0
    /\ result = EmptyResult
    /\ remainingElements = <<>>
    /\ pstatus = "called"

\* A record of components to be given to withDisplayNames.
InitNames ==
    /\ TransformIdle
    /\ GroupIdle
    /\ components \in Records
    /\ fns \in [1..2 -> FnObjects]
    /\ applied = 0
    /\ returned = NoRecord
    /\ ContentIdle
    /\ RoutingIdle
    /\ HeaderIdle

\* A document tree with links of every kind among its nodes.
Init ==
    /\ src = NoSource
    /\ \E tree \in Trees : InitOn(tree)
    /\ GroupIdle
    /\ OthersIdle

\* A document holding one link, whose text is written from a label and pieces.
InitProps ==
    /\ src \in Sources
    /\ InitOn(Parent("root", <<Link(UrlX, <<Text(Written(src))>>)>>))
    /\ GroupIdle
    /\ OthersIdle

\* A call of groupBySequence on some children and some pattern.
InitGroup ==
    /\ TransformIdle
    /\ OthersIdle
    /\ \E kids \in SeqsUpTo(ChildPool, MaxChildren), pattern \in Patterns :
           GroupOn(kids, pattern)

\* Pairs among which a key comes back, the key href and an integer-like key.
KeyPieces ==
    { <<"h", "r", "e", "f", "=", "y">>,
      <<"a", "=", "1">>,
      <<"a", "=", "2">>,
      <<"b", "=", "2">>,
      <<"1", "=", "x">> }

\* A document holding one link, whose props segment is written from pairs.
InitKeys ==
    /\ src \in [label : {Label}, pieces : SeqsUpTo(KeyPieces, MaxPieces)]
    /\ InitOn(Parent("root", <<Link(UrlX, <<Text(Written(src))>>)>>))
    /\ GroupIdle
    /\ OthersIdle

MaxBody == 5

\* The characters a bracket content is written from.
BodyChars == {"A", "|", "=", "1", " "}

\* A document holding one link whose text is a bracket content in brackets.
InitGrammar ==
    /\ src = NoSource
    /\ \E body \in SeqsUpTo(BodyChars, MaxBody) :
           InitOn(Parent("root", <<Link(UrlX, <<Text(<<"[">> \o body \o <<"]">>)>>)>>))
    /\ GroupIdle
    /\ OthersIdle

\* A call of groupBySequence with the empty pattern.
InitEmptyPattern ==
    /\ TransformIdle
    /\ OthersIdle
    /\ \E kids \in SeqsUpTo(ChildPool, MaxChildren) : GroupOn(kids, <<>>)

\* The trees and children on which both operations are run side by side.
BothTrees ==
    {Parent("root", <<Parent("paragraph", kids)>>) :
        kids \in SeqsUpTo({ButtonLink, Text(<<"x">>), Link(UrlX, <<[type |-> "text"]>>)},
                          MaxSiblings)}
        \cup {ButtonLink, Parent("root", <<>>)}

\* One run of the transformer on a tree and one call of
\* groupBySequence(children, ["h3", "p"]), independent of each other.
InitBoth ==
    /\ src = NoSource
    /\ \E tree \in BothTrees : InitOn(tree)
    /\ \E kids \in SeqsUpTo({H3, P}, MaxChildren) : GroupOn(kids, FeaturesGridSeq)
    /\ OthersIdle

Next == Start \/ Visit \/ Leave \/ Rerun

NextOnce == Start \/ Visit \/ Leave

NextGroup == Call \/ Window \/ Return \/ FeaturesGrid

NextLoop == Call \/ Window \/ Return

NextNames == ApplyDisplayNames \/ UseComponent \/ Call \/ Window \/ Return

Spec == Init /\ [][Next]_vars

SpecProps == InitProps /\ [][NextOnce]_vars

SpecGroup == InitGroup /\ [][NextGroup]_vars

SpecKeys == InitKeys /\ [][NextOnce]_vars

SpecGrammar == InitGrammar /\ [][NextOnce]_vars

SpecEmptyPattern == InitEmptyPattern /\ [][NextLoop]_vars

SpecNames == InitNames /\ [][NextNames]_vars

\* A build over some content directory.
InitRouting ==
    /\ TransformIdle
    /\ GroupIdle
    /\ NamesIdle
    /\ ContentIdle
    /\ HeaderIdle
    /\ contentDir \in Listings
    /\ staticParams = <<>>
    /\ params = <<>>
    /\ imported = <<>>
    /\ rstatus = "build"

NextRouting == GenerateStaticParams \/ Page

SpecRouting == InitRouting /\ [][NextRouting]_vars

\* A Header created with some children.
InitHeader ==
    /\ TransformIdle
    /\ GroupIdle
    /\ NamesIdle
    /\ ContentIdle
    /\ RoutingIdle
    /\ headerChildren \in SeqsUpTo(ChildPool, MaxChildren)
    /\ isMenuOpen = FALSE
    /\ rendered = NotRendered
    /\ clicks = 0
    /\ hstatus = "created"

NextHeader == Mount \/ Click

SpecHeader == InitHeader /\ [][NextHeader]_vars

NextContent == Parse \/ Each \/ Finish

SpecContent == InitContent /\ [][NextContent]_vars

NextBoth == NextOnce \/ NextGroup

SpecBoth == InitBoth /\ [][NextBoth]_vars

\* Both operations are plain synchronous calls: a call that can take its
\* next step takes it.
SpecBothFair == SpecBoth /\ WF_vars(NextOnce) /\ WF_vars(NextGroup)

----------------------------------------------------------------------------
(* What the properties speak of, stated apart from the plugin's own code *)

\* The language of the bracket grammar ^\[(.+?)(?:\|(.+?))?\]$ : an opening
\* bracket, one or more characters other than line terminators, a closing
\* bracket.
MatchesGrammar(text) ==
    /\ Len(text) >= 3
    /\ text[1] = "["
    /\ text[Len(text)] = "]"
    /\ \A i \in 2..(Len(text) - 1) : text[i] \notin {"\n", "\r"}

\* Object id of heap h is a link whose first child is a text node whose
\* value matches the grammar.
IsBracketLink(h, id) ==
    /\ h[id].type = "link"
    /\ "children" \in DOMAIN h[id]
    /\ h[id].children # <<>>
    /\ LET first == h[h[id].children[1]]
       IN  /\ first.type = "text"
           /\ "value" \in DOMAIN first
           /\ MatchesGrammar(first.value)

IsButton(node) ==
    /\ node.type = "mdxJsxTextElement"
    /\ "name" \in DOMAIN node
    /\ node.name = "Button"

\* The objects of the input tree, as they were before the transformer ran.
Heap0 == Alloc(<<>>, input)

BracketLinks0 == {id \in DOMAIN Heap0 : IsBracketLink(Heap0, id)}

\* The objects below object id.
RECURSIVE Below(_, _)
Below(h, id) ==
    IF "children" \notin DOMAIN h[id] THEN {}
    ELSE UNION {{h[id].children[i]} \cup Below(h, h[id].children[i]) :
                   i \in 1..Len(h[id].children)}

\* The objects the tree holds now.
InTree == {root} \cup Below(heap, root)

\* C1: when the transformer has returned, every link that matched the
\* grammar in the input (at any depth, whatever its parent) has a node of
\* type mdxJsxTextElement named Button in its place in its parent's
\* children, and no matching link is left under any parent nor in the tree.
C1_MatchingLinksBecomeButtons ==
    status = "done" =>
        /\ \A p \in DOMAIN Heap0 :
               "children" \in DOMAIN Heap0[p] =>
                   \A i \in 1..Len(Heap0[p].children) :
                       IsBracketLink(Heap0, Heap0[p].children[i]) =>
                           /\ i <= Len(heap[p].children)
                           /\ IsButton(heap[heap[p].children[i]])
        /\ \A p \in DOMAIN heap :
               "children" \in DOMAIN heap[p] =>
                   \A i \in 1..Len(heap[p].children) :
                       ~IsBracketLink(heap, heap[p].children[i])
        /\ \A id \in InTree : ~IsBracketLink(heap, id)

\* C1's case: a first run has returned on a tree that held matching links
\* under several parents, one of them a link with further children.
C1_Witness ==
    /\ status = "done"
    /\ pass = 1
    /\ Cardinality(BracketLinks0) >= 3
    /\ \E id \in BracketLinks0 : Len(Heap0[id].children) >= 2

\* C2: a tree without any link matching the grammar is deeply equal to the
\* input at every moment of the transformer's run and after it.
C2_PassThrough ==
    BracketLinks0 = {} => TreeOf(heap, root) = input

\* C2's case: the run is over on a tree that holds links, none matching:
\* among them one without children and one whose first child is no text.
C2_Witness ==
    /\ status = "done"
    /\ pass = 1
    /\ BracketLinks0 = {}
    /\ \E id \in DOMAIN Heap0 :
           Heap0[id].type = "link" /\ "children" \notin DOMAIN Heap0[id]
    /\ \E id \in DOMAIN Heap0 :
           /\ Heap0[id].type = "link"
           /\ "children" \in DOMAIN Heap0[id]
           /\ Heap0[id].children # <<>>
           /\ Heap0[Heap0[id].children[1]].type # "text"

\* The indices of parent p's children that were matching links in the input.
MatchingAt(p) ==
    {i \in 1..Len(Heap0[p].children) : IsBracketLink(Heap0, Heap0[p].children[i])}

\* C3: when exactly one of a parent's N children was a matching link, at
\* index i, then after the transformer has returned the parent has N
\* children, the one at i is the Button node, and at every other index sits
\* the same node object as before, deeply equal to what it was whenever no
\* matching link lay below it.
C3_SingleSubstitution ==
    status = "done" =>
        \A p \in DOMAIN Heap0 :
            ("children" \in DOMAIN Heap0[p] /\ Cardinality(MatchingAt(p)) = 1) =>
                /\ Len(heap[p].children) = Len(Heap0[p].children)
                /\ \A i \in 1..Len(Heap0[p].children) :
                       IF i \in MatchingAt(p)
                       THEN IsButton(heap[heap[p].children[i]])
                       ELSE /\ heap[p].children[i] = Heap0[p].children[i]
                            /\ (Below(Heap0, Heap0[p].children[i]) \cap BracketLinks0 = {})
                                   => TreeOf(heap, heap[p].children[i])
                                          = TreeOf(Heap0, Heap0[p].children[i])

\* C3's case: the run is over and some parent had two or more children of
\* which exactly one, not the first, was a matching link.
C3_Witness ==
    /\ status = "done"
    /\ pass = 1
    /\ \E p \in DOMAIN Heap0 :
           /\ "children" \in DOMAIN Heap0[p]
           /\ Len(Heap0[p].children) >= 2
           /\ Cardinality(MatchingAt(p)) = 1
           /\ 1 \notin MatchingAt(p)

\* C9: the transformer never throws, whatever the tree.
C9_NeverThrows == status # "threw"

\* C10: a second run of the transformer on the tree the first run left
\* changes nothing, at any moment of that run.
C10_SecondRunChangesNothing ==
    pass = 2 => TreeOf(heap, root) = out1

\* C10's case: the second run has returned after a first run that turned
\* links into Buttons and left other links in place.
C10_Witness ==
    /\ pass = 2
    /\ status = "done"
    /\ out1 # input
    /\ \E id \in InTree : heap[id].type = "link"
    /\ \E id \in InTree : IsButton(heap[id])

----------------------------------------------------------------------------
(* Properties of the props segment, on the one-link documents of SpecProps *)

\* The node now in the slot of the document's only link, as a value.
Out == TreeOf(heap, heap[root].children[1])

\* A token as an author writes a label, a key or a value: not empty, no
\* white space, none of the grammar's delimiters.
PlainToken(s) ==
    /\ s # <<>>
    /\ \A i \in 1..Len(s) :
           s[i] \notin {" ", "\t", "\n", "\r", "=", ",", "|", "[", "]"}

HasEq(piece) == \E i \in 1..Len(piece) : piece[i] = "="

FirstEq(piece) ==
    CHOOSE i \in 1..Len(piece) :
        piece[i] = "=" /\ \A j \in 1..(i - 1) : piece[j] # "="

\* The text before the first "=" of a piece, and all the text after it.
KeyPart(piece) == SubSeq(piece, 1, FirstEq(piece) - 1)
RestPart(piece) == SubSeq(piece, FirstEq(piece) + 1, Len(piece))

\* A piece key=value of plain tokens.
IsPlainPair(piece) ==
    HasEq(piece) /\ PlainToken(KeyPart(piece)) /\ PlainToken(RestPart(piece))

AllPlainPairs(pieces) == \A i \in 1..Len(pieces) : IsPlainPair(pieces[i])

DistinctKeys(pieces) ==
    \A i, j \in 1..Len(pieces) :
        i # j => KeyPart(pieces[i]) # KeyPart(pieces[j])

Range(f) == {f[i] : i \in DOMAIN f}

\* C4: a link with url U and text [T|k1=v1,...,kn=vn], T, ki and vi plain
\* tokens and the keys distinct, becomes a node named Button whose first
\* attribute is href = U, whose n other attributes are exactly ki = vi, one
\* for each pair, and whose only child is the text T; [Label|a=1,b=2] with
\* url /x gives the attributes href=/x, a=1, b=2 in this order.
C4_PropsRoundTrip ==
    (/\ status = "done"
     /\ PlainToken(src.label)
     /\ AllPlainPairs(src.pieces)
     /\ DistinctKeys(src.pieces)) =>
        /\ IsButton(Out)
        /\ Len(Out.attributes) = Len(src.pieces) + 1
        /\ Out.attributes[1] = Attribute(hrefName, UrlX)
        /\ \A i \in 1..Len(src.pieces) :
               Attribute(KeyPart(src.pieces[i]), RestPart(src.pieces[i]))
                   \in Range(Tail(Out.attributes))
        /\ Out.children = <<Text(src.label)>>
        /\ (src.label = Label /\ src.pieces = <<(<<"a", "=", "1">>), (<<"b", "=", "2">>)>>)
               => Out.attributes = <<Attribute(hrefName, UrlX),
                                     Attribute(<<"a">>, <<"1">>),
                                     Attribute(<<"b">>, <<"2">>)>>

\* C4's case: [Label|a=1,b=2] has been transformed, and so has a text with
\* three pairs.
C4_Witness ==
    /\ status = "done"
    /\ src.label = Label
    /\ src.pieces = <<(<<"a", "=", "1">>), (<<"b", "=", "2">>)>>
    /\ IsButton(Out)

\* The keys of plain pairs in their order of appearance, each once.
RECURSIVE KeysInOrder(_, _)
KeysInOrder(pieces, seen) ==
    IF pieces = <<>> THEN seen
    ELSE KeysInOrder(Tail(pieces),
                     IF KeyPart(Head(pieces)) \in Range(seen) THEN seen
                     ELSE Append(seen, KeyPart(Head(pieces))))

\* C5: href comes first, and the other attributes stand in the order in
\* which their keys appear in the props segment (stated for segments made
\* of plain pairs, integer-like and repeated keys among them).
C5_AttributeOrder ==
    (status = "done" /\ AllPlainPairs(src.pieces)) =>
        /\ Out.attributes[1] = Attribute(hrefName, UrlX)
        /\ [i \in 1..(Len(Out.attributes) - 1) |-> Out.attributes[i + 1].name]
               = KeysInOrder(src.pieces, <<>>)

\* The pieces that hold an "=".
WithEq(pieces) == SelectSeq(pieces, HasEq)

\* The key a piece with "=" sets, as the attribute's name shows it.
KeyOfPiece(piece) == trim(KeyPart(piece))

\* C6: a piece without "=" is dropped and nothing else changes: no attribute
\* comes from it, every plain pair before or after it that no later piece
\* overrides is an attribute, the attributes are those of the same segment
\* written without such pieces, and the transformer does not throw;
\* [Label|a=1,bad,c=3] gives a=1 and c=3 only.
C6_MalformedPieceDropped ==
    /\ status # "threw"
    /\ status = "done" =>
        /\ IsButton(Out)
        /\ \A a \in Range(Tail(Out.attributes)) :
               \E i \in 1..Len(src.pieces) :
                   HasEq(src.pieces[i]) /\ KeyOfPiece(src.pieces[i]) = a.name
        /\ \A i \in 1..Len(src.pieces) :
               (/\ IsPlainPair(src.pieces[i])
                /\ \A j \in (i + 1)..Len(src.pieces) :
                       HasEq(src.pieces[j]) => KeyOfPiece(src.pieces[j]) # KeyPart(src.pieces[i]))
                   => Attribute(KeyPart(src.pieces[i]), RestPart(src.pieces[i]))
                          \in Range(Tail(Out.attributes))
        /\ Out.attributes =
               createMdxButtonElement(
                   extractButtonSyntaxFromDoubleBrackets(
                       Written([src EXCEPT !.pieces = WithEq(@)])),
                   UrlX).attributes
        /\ (src.pieces = <<(<<"a", "=", "1">>), (<<"b", "a", "d">>), (<<"c", "=", "3">>)>>)
               => Tail(Out.attributes) = <<Attribute(<<"a">>, <<"1">>),
                                           Attribute(<<"c">>, <<"3">>)>>

\* C6's case: [Label|a=1,bad,c=3] has been transformed.
C6_Witness ==
    /\ status = "done"
    /\ src.label = Label
    /\ src.pieces = <<(<<"a", "=", "1">>), (<<"b", "a", "d">>), (<<"c", "=", "3">>)>>
    /\ Len(Out.attributes) = Len(src.pieces)

\* C7: no attribute made from the props segment has an empty name or an
\* empty value.
C7_NoEmptyKeyOrValue ==
    status = "done" =>
        \A a \in Range(Tail(Out.attributes)) : a.name # <<>> /\ a.value # <<>>

\* C8: a piece is split once on "=": a segment of one piece whose key and
\* whose text after the first "=" are not blank gives one attribute, the
\* trimmed key with all the trimmed text after the first "=" as its value.
C8_SplitOnceOnEquals ==
    (/\ status = "done"
     /\ Len(src.pieces) = 1
     /\ HasEq(src.pieces[1])
     /\ trim(KeyPart(src.pieces[1])) # <<>>
     /\ trim(RestPart(src.pieces[1])) # <<>>) =>
        Tail(Out.attributes) =
            <<Attribute(trim(KeyPart(src.pieces[1])), trim(RestPart(src.pieces[1])))>>

----------------------------------------------------------------------------
(* What the properties of the grouper speak of *)

GroupReturned == gstatus \in {"returned", "rendered"}

GroupThrew == gstatus = "threw"

GroupDone == GroupReturned \/ GroupThrew

\* The places, in order, of the children that Children.toArray keeps.
KeptPlaces ==
    LET IsKept(n) == childrenProp[n].kind \notin {"null", "undefined", "boolean"}
    IN  SelectSeq([n \in 1..Len(childrenProp) |-> n], IsKept)

\* The list of children after Children.toArray: child q (from 1) is the
\* child at place KeptPlaces[q], an element being keyed by its place.
KeptChildren ==
    [q \in 1..Len(KeptPlaces) |->
        LET c == childrenProp[KeptPlaces[q]]
        IN  IF c.kind = "element"
            THEN [kind |-> "element", type |-> c.type, key |-> KeptPlaces[q] - 1]
            ELSE c]

\* A child has a tag when it is an intrinsic element (its tag) or a
\* component with a display name (that name).
HasTag(el) ==
    /\ el.kind = "element"
    /\ \/ el.type.typeof = "string"
       \/ el.type.typeof = "function" /\ "displayName" \in DOMAIN el.type

TagOf(el) == IF el.type.typeof = "string" THEN el.type.tag ELSE el.type.displayName

\* The pattern entry expected at position n (from 0).
ExpectedAt(n) == seq[(n % Len(seq)) + 1]

\* The child at position n (from 0) carries the tag expected there.
TagFits(n) ==
    /\ HasTag(KeptChildren[n + 1])
    /\ TagOf(KeptChildren[n + 1]) = ExpectedAt(n)

Positions == 0..(Len(KeptChildren) - 1)

AllTagsFit == \A n \in Positions : TagFits(n)

\* The smallest position whose child does not carry the expected tag.
FirstMisfit == CHOOSE n \in Positions : ~TagFits(n) /\ \A m \in 0..(n - 1) : TagFits(m)

\* The concatenation of a list of lists.
RECURSIVE Concat(_)
Concat(lists) == IF lists = <<>> THEN <<>> ELSE Head(lists) \o Concat(Tail(lists))

\* C11: when the tags of the children are the pattern (of length k >= 1)
\* repeated m times, groupBySequence returns exactly m = length / k groups;
\* group g holds the children at positions g*k .. g*k + k - 1 in order, so
\* each group has k elements and its position j carries the tag pattern[j].
C11_GroupsOfPattern ==
    (GroupDone /\ Len(seq) >= 1 /\ Len(KeptChildren) % Len(seq) = 0 /\ AllTagsFit)
        => /\ GroupReturned
           /\ Len(groups) = Len(KeptChildren) \div Len(seq)
           /\ \A g \in 1..Len(groups) :
                 /\ groups[g] = SubSeq(KeptChildren, (g - 1) * Len(seq) + 1, g * Len(seq))
                 /\ Len(groups[g]) = Len(seq)
                 /\ \A j \in 1..Len(seq) :
                       HasTag(groups[g][j]) /\ TagOf(groups[g][j]) = seq[j]

\* [h3, p, h3, p] with the pattern ["h3", "p"] has come back as two groups.
C11_Witness ==
    /\ GroupReturned
    /\ seq = <<"h3", "p">>
    /\ childrenProp = <<H3, P, H3, P>>
    /\ Len(groups) = 2

\* C12: when the first child that does not carry the tag expected at its
\* position carries another tag, groupBySequence throws the Error
\* `Expected <TAG> at position N, found <ACTUAL>`: N is the smallest 0-based
\* position whose tag differs from pattern[N mod k], TAG is pattern[N mod k]
\* and ACTUAL is the tag of the child at N.
C12_FirstMismatchReported ==
    (GroupDone /\ Len(seq) >= 1 /\ ~AllTagsFit /\ HasTag(KeptChildren[FirstMisfit + 1]))
        => /\ GroupThrew
           /\ thrown = ExpectedError(ExpectedAt(FirstMisfit), FirstMisfit,
                                     TagOf(KeptChildren[FirstMisfit + 1]))

\* [h3, h3, p] with the pattern ["h3", "p"] has thrown
\* "Expected <p> at position 1, found <h3>".
C12_Witness ==
    /\ GroupThrew
    /\ seq = <<"h3", "p">>
    /\ childrenProp = <<H3, H3, P>>
    /\ thrown = ExpectedError("p", 1, "h3")

\* C13: when the child at the first mismatching position has no
\* determinable tag (it is a bare text child, or there is no child there
\* because the final window is short), groupBySequence still throws the
\* structured Error `Expected <TAG> at position N, found <unknown>`.
C13_UnknownReported ==
    (GroupDone /\ Len(seq) >= 1)
        => /\ (~AllTagsFit /\ KeptChildren[FirstMisfit + 1].kind = "text")
                 => /\ GroupThrew
                    /\ thrown = ExpectedError(ExpectedAt(FirstMisfit), FirstMisfit, "unknown")
           /\ (AllTagsFit /\ Len(KeptChildren) % Len(seq) # 0)
                 => /\ GroupThrew
                    /\ thrown = ExpectedError(ExpectedAt(Len(KeptChildren)),
                                              Len(KeptChildren), "unknown")

\* The matching rule with the function name as the fallback of a component
\* without displayName.
MatchesByRule(el, entry) ==
    /\ el.kind = "element"
    /\ \/ el.type.typeof = "string" /\ el.type.tag = entry
       \/ /\ el.type.typeof = "function"
          /\ IF "displayName" \in DOMAIN el.type
             THEN el.type.displayName = entry
             ELSE el.type.name = entry

\* C14: an element matches a pattern entry exactly when it is an intrinsic
\* element whose tag equals the entry, or a component whose displayName
\* equals the entry or, when it has no displayName, whose function name
\* equals the entry; the same rule decides what is accepted and what is
\* reported: a list of elements in whole windows is returned when every
\* element matches the entry of its position, and otherwise the Error names
\* the first position whose element does not match.
C14_MatchingRule ==
    (/\ GroupDone
     /\ Len(seq) >= 1
     /\ Len(KeptChildren) % Len(seq) = 0
     /\ \A n \in Positions : KeptChildren[n + 1].kind = "element")
        => LET fits(n) == MatchesByRule(KeptChildren[n + 1], ExpectedAt(n))
           IN  IF \A n \in Positions : fits(n)
               THEN GroupReturned
               ELSE /\ GroupThrew
                    /\ thrown.name = "Error"
                    /\ ~fits(thrown.position)
                    /\ \A m \in 0..(thrown.position - 1) : fits(m)

\* C15: a trailing partial group is never silently dropped: when the number
\* of children is not a multiple of k the call ends in an exception, and
\* whatever is returned holds every child in groups of exactly k.
C15_NoPartialGroup ==
    Len(seq) >= 1
        => /\ (GroupDone /\ Len(KeptChildren) % Len(seq) # 0) => GroupThrew
           /\ GroupReturned
                 => /\ \A g \in 1..Len(groups) : Len(groups[g]) = Len(seq)
                    /\ Len(groups) * Len(seq) = Len(KeptChildren)

\* [h3, p, h3] with the pattern ["h3", "p"]: the first window was pushed and
\* the short second window ended the call in an exception.
C15_Witness ==
    /\ GroupThrew
    /\ seq = <<"h3", "p">>
    /\ childrenProp = <<H3, P, H3>>
    /\ Len(groups) = 1

\* C16: whenever groupBySequence returns, the concatenation of the groups
\* in order is exactly the list of children after Children.toArray: nothing
\* is duplicated, left out or reordered.
C16_ConcatIsChildren ==
    GroupReturned => Concat(groups) = KeptChildren

\* Two groups have come back from children among which one was dropped by
\* Children.toArray.
C16_Witness ==
    /\ GroupReturned
    /\ Len(groups) = 2
    /\ Len(childrenProp) > Len(KeptChildren)

\* C17: all-or-nothing: groupBySequence either returns the complete list of
\* valid groups or throws; when it throws, FeaturesGrid receives no groups
\* and renders no card, and the cards it renders are the returned groups.
C17_AllOrNothing ==
    /\ GroupReturned
          => /\ thrown = NoError
             /\ Concat(groups) = KeptChildren
             /\ \A g \in 1..Len(groups) :
                   /\ Len(groups[g]) = Len(seq)
                   /\ \A j \in 1..Len(seq) :
                         HasTag(groups[g][j]) /\ TagOf(groups[g][j]) = seq[j]
    /\ GroupThrew => (thrown # NoError /\ cards = <<>>)
    /\ cards # <<>> => (gstatus = "rendered" /\ cards = groups)

\* A call by FeaturesGrid has thrown after a first group was pushed, and
\* nothing was rendered.
C17_Witness ==
    /\ GroupThrew
    /\ seq = FeaturesGridSeq
    /\ groups # <<>>
    /\ cards = <<>>

\* C18: empty children, or children that are all null, undefined or
\* boolean, with a pattern of length k >= 1: groupBySequence returns the
\* empty list of groups and does not throw.
C18_EmptyInput ==
    (GroupDone /\ KeptChildren = <<>> /\ Len(seq) >= 1)
        => (GroupReturned /\ groups = <<>> /\ thrown = NoError)

\* The children [null, true] have come back as no groups.
C18_Witness ==
    /\ GroupReturned
    /\ childrenProp = <<NullChild, BoolChild>>
    /\ groups = <<>>

\* Both calls come to an end, by a return or by an exception.
BothTerminate ==
    /\ <>(status \in {"done", "threw"})
    /\ <>GroupDone

\* C19: both operations complete synchronously: for a pattern of length
\* k >= 1 a call of groupBySequence that has neither returned nor thrown
\* goes on to its next step, and a run of the transformer that has not
\* returned goes on to its next step, so that the one eventually returns or
\* throws and the other eventually returns.
C19_BothComplete ==
    /\ Len(seq) >= 1 => (GroupDone \/ ENABLED NextGroup)
    /\ status = "done" \/ ENABLED NextOnce

----------------------------------------------------------------------------
(* The split of the bracket content, on the one-link documents of
   SpecGrammar *)

\* The text of the document's only link, as written.
LinkText == input.children[1].children[1].value

\* The places of the pipes of a text, and the first of a set of places.
PipesOf(text) == {p \in 1..Len(text) : text[p] = "|"}

First(ps) == CHOOSE p \in ps : \A q \in ps : p <= q

\* The pipes with at least one character between them and each bracket.
InnerPipes(text) == {p \in PipesOf(text) : 3 <= p /\ p <= Len(text) - 2}

\* The attributes written from a props object.
AttributesOf(props) ==
    [i \in 1..Len(props) |-> Attribute(props[i].key, props[i].value)]

\* C20 as stated: whenever the link text matches and contains a "|", the
\* button text is the non-empty part between the opening bracket and the
\* first "|" (trimmed, as every button text is), the props segment is the
\* part between that "|" and the closing bracket, and the button text never
\* contains "|".
C20_SplitAtFirstPipe ==
    (status = "done" /\ MatchesGrammar(LinkText) /\ PipesOf(LinkText) # {})
        => LET p    == First(PipesOf(LinkText))
               part == SubSeq(LinkText, 2, p - 1)
           IN  /\ IsButton(Out)
               /\ part # <<>>
               /\ Out.children = <<Text(trim(part))>>
               /\ "|" \notin Range(Out.children[1].value)
               /\ BracketMatch(LinkText).g2 = SubSeq(LinkText, p + 1, Len(LinkText) - 1)

\* C20, amended: whenever the link text matches, the split is at the first
\* "|" that has at least one character between it and each bracket: the
\* button text is the part between the opening bracket and that "|",
\* trimmed, and the props segment is the part between that "|" and the
\* closing bracket, from which the attributes after href are written.  When
\* no "|" stands so, there is no props segment and the button text is the
\* whole bracket content, trimmed, pipes included.
C20_SplitAtInnerPipe ==
    (status = "done" /\ MatchesGrammar(LinkText))
        => /\ IsButton(Out)
           /\ IF InnerPipes(LinkText) # {}
              THEN LET p       == First(InnerPipes(LinkText))
                       segment == SubSeq(LinkText, p + 1, Len(LinkText) - 1)
                   IN  /\ Out.children = <<Text(trim(SubSeq(LinkText, 2, p - 1)))>>
                       /\ BracketMatch(LinkText).g2 = segment
                       /\ Out.attributes = <<Attribute(hrefName, UrlX)>>
                              \o AttributesOf(parseCommaDelimitedProps(segment))
              ELSE /\ Out.children
                         = <<Text(trim(SubSeq(LinkText, 2, Len(LinkText) - 1)))>>
                   /\ BracketMatch(LinkText).g2 = Undefined
                   /\ Out.attributes = <<Attribute(hrefName, UrlX)>>

\* [A|] has become a button with the text "A|", and [A|A|A] one with the
\* text "A".
C20_Witness ==
    /\ status = "done"
    /\ \/ /\ LinkText = <<"[", "A", "|", "]">>
          /\ Out.children = <<Text(<<"A", "|">>)>>
       \/ /\ LinkText = <<"[", "A", "|", "A", "|", "A", "]">>
          /\ Out.children = <<Text(<<"A">>)>>

----------------------------------------------------------------------------
(* The order of the walk *)

\* The tree a run of the transformer is given: the input in the first run,
\* what the first run left in the second.
PassTree == IF pass = 1 THEN input ELSE out1

\* The places of the link nodes of a tree in document order: a node before
\* its children, the children from first to last.
RECURSIVE LinkPlaces(_, _)
RECURSIVE LinkPlacesOfChildren(_, _, _)
LinkPlaces(node, place) ==
    (IF node.type = "link" THEN <<place>> ELSE <<>>)
        \o (IF "children" \in DOMAIN node
            THEN LinkPlacesOfChildren(node.children, place, 1)
            ELSE <<>>)

LinkPlacesOfChildren(kids, place, i) ==
    IF i > Len(kids) THEN <<>>
    ELSE LinkPlaces(kids[i], Append(place, i))
             \o LinkPlacesOfChildren(kids, place, i + 1)

IsPrefix(s, t) == Len(s) <= Len(t) /\ s = SubSeq(t, 1, Len(s))

\* C21: in every run the visitor is called with the link nodes of the tree
\* the run was given, each at most once and in document order, and when the
\* run has returned with each of them exactly once: no link is skipped or
\* visited twice after a replacement, and no node written during the run
\* (a Button) is visited.
C21_EachLinkOnceInOrder ==
    LET links == LinkPlaces(PassTree, <<>>)
    IN  /\ IsPrefix(visited, links)
        /\ \A i, j \in 1..Len(visited) : visited[i] = visited[j] => i = j
        /\ status = "done" => visited = links

\* The first run has returned after it replaced the first link of a
\* paragraph by a Button and went on to visit the link after it.
C21_Witness ==
    /\ status = "done"
    /\ pass = 1
    /\ IsPrefix(<<(<<1, 1>>), (<<1, 2>>)>>, visited)
    /\ IsButton(TreeOf(heap, root).children[1].children[1])

----------------------------------------------------------------------------
(* What a Button holds *)

\* The button text a matching link text is written with: the bracket
\* content up to the separating pipe if there is one, trimmed.
ButtonTextOf(text) ==
    trim(SubSeq(text, 2, IF InnerPipes(text) # {} THEN First(InnerPipes(text)) - 1
                         ELSE Len(text) - 1))

\* The slots (parent, index) that held object id in the input tree.
SlotsOf(id) ==
    {pi \in {q \in DOMAIN Heap0 : "children" \in DOMAIN Heap0[q]} \X (1..Len(Heap0)) :
        /\ pi[2] <= Len(Heap0[pi[1]].children)
        /\ Heap0[pi[1]].children[pi[2]] = id}

\* C22: when the transformer has returned, every Button of the tree has
\* exactly one child, a text node; the Button standing where a matching link
\* stood holds the trimmed button text of that link's first child; and no
\* child of a matching link, nor anything below one, is in the output tree.
C22_ButtonHoldsTrimmedText ==
    status = "done" =>
        /\ \A id \in InTree :
               IsButton(heap[id]) =>
                   /\ Len(heap[id].children) = 1
                   /\ heap[heap[id].children[1]].type = "text"
        /\ \A l \in BracketLinks0 :
               /\ \A pi \in SlotsOf(l) :
                      LET b == heap[heap[pi[1]].children[pi[2]]]
                      IN  /\ IsButton(b)
                          /\ TreeOf(heap, heap[pi[1]].children[pi[2]]).children
                                 = <<Text(ButtonTextOf(Heap0[Heap0[l].children[1]].value))>>
               /\ Below(Heap0, l) \cap InTree = {}

\* The link with the text "[ A ]" and a second child has given way to a
\* Button.
C22_Witness ==
    /\ status = "done"
    /\ \E l \in BracketLinks0 :
           /\ Len(Heap0[l].children) = 2
           /\ Heap0[Heap0[l].children[1]].value = TextSpaced
           /\ \E pi \in SlotsOf(l) : pi[1] \in InTree

----------------------------------------------------------------------------
(* Attribute names, on the one-link documents of SpecKeys *)

\* The attributes that come from the props segment: all but the first.
PropsAttributes == Tail(Out.attributes)

\* C23: the attribute names of a Button are pairwise distinct; exactly one
\* attribute is named href and its value is the link's url, also when the
\* props segment holds a pair with the key href.
C23_DistinctAttributeNames ==
    status = "done" =>
        /\ IsButton(Out)
        /\ \A i, j \in 1..Len(Out.attributes) :
               Out.attributes[i].name = Out.attributes[j].name => i = j
        /\ Cardinality({i \in 1..Len(Out.attributes) :
                           Out.attributes[i].name = hrefName}) = 1
        /\ \A i \in 1..Len(Out.attributes) :
               Out.attributes[i].name = hrefName => Out.attributes[i].value = UrlX

\* The places of the pairs of a segment that set key k.
PairsOf(pieces, k) == {i \in 1..Len(pieces) : KeyPart(pieces[i]) = k}

\* The place of x in a sequence that holds it once.
PlaceIn(sq, x) == CHOOSE i \in 1..Len(sq) : sq[i] = x

Max(S) == CHOOSE x \in S : \A y \in S : y <= x

\* C24: when a key occurs in several valid pairs of the props segment, one
\* props attribute carries that key, its value is that of the last such
\* pair, and its place among the props attributes is the place of the key's
\* first occurrence among the keys of the segment.
C24_RepeatedKey ==
    (status = "done" /\ AllPlainPairs(src.pieces)) =>
        \A k \in {KeyPart(src.pieces[i]) : i \in 1..Len(src.pieces)} :
            Cardinality(PairsOf(src.pieces, k)) >= 2 =>
                LET at == {i \in 1..Len(PropsAttributes) : PropsAttributes[i].name = k}
                IN  /\ Cardinality(at) = 1
                    /\ \A i \in at :
                           /\ PropsAttributes[i].value
                                  = RestPart(src.pieces[Max(PairsOf(src.pieces, k))])
                           /\ i = PlaceIn(KeysInOrder(src.pieces, <<>>), k)

\* The part of C24 that holds: the same, for segments without integer-like
\* keys.
RepeatedKeyAmongNames ==
    (\A i \in 1..Len(src.pieces) : ~IsArrayIndex(KeyPart(src.pieces[i])))
        => C24_RepeatedKey

----------------------------------------------------------------------------
(* The empty pattern, on the calls of SpecEmptyPattern *)

\* C25: with an empty pattern and children that are not empty,
\* groupBySequence neither returns nor throws: the window start stays at 0,
\* every turn of the loop appends an empty group and another turn follows;
\* with an empty pattern and no children it returns the empty list.
C25_EmptyPatternLoops ==
    Len(seq) = 0 =>
        /\ KeptChildren # <<>> =>
              /\ ~GroupDone
              /\ idx = 0
              /\ \A g \in 1..Len(groups) : groups[g] = <<>>
              /\ (gstatus = "looping" /\ Len(groups) < MaxGroups) => ENABLED Window
              /\ ~ENABLED Return
        /\ (KeptChildren = <<>> /\ gstatus # "called") =>
              /\ groups = <<>>
              /\ thrown = NoError
              /\ GroupReturned \/ ENABLED Return

\* Empty groups have been appended for as long as the loop is followed, and
\* the loop is still at 0.
C25_Witness ==
    /\ Len(seq) = 0
    /\ KeptChildren # <<>>
    /\ Len(groups) = MaxGroups
    /\ gstatus = "looping"
    /\ idx = 0

----------------------------------------------------------------------------
(* Display names, on the records of SpecNames *)

\* The entry of the record under key k.
EntryOf(k) == components[CHOOSE n \in 1..Len(components) : components[n].key = k]

\* Entry n is the last one, in the order of Object.keys, of its component.
LastOfItsComponent(n) ==
    \A m \in (n + 1)..Len(components) : components[m].fn # components[n].fn

\* C26: after withDisplayNames, every component of the record has its key
\* for displayName (a component under two keys: the key processed last),
\* and the record returned is the record given; a second application
\* changes nothing; and an element of components[key] is accepted by
\* groupBySequence for the pattern entry key.
C26_DisplayNamesAreKeys ==
    applied >= 1 =>
        /\ returned = components
        /\ \A n \in 1..Len(components) :
               LastOfItsComponent(n) =>
                   /\ "displayName" \in DOMAIN fns[components[n].fn]
                   /\ fns[components[n].fn].displayName = components[n].key
        /\ withDisplayNames(components, fns) = fns
        /\ (GroupDone /\ LastOfItsComponent(
                            CHOOSE n \in 1..Len(components) : components[n].key = seq[1]))
               => /\ GroupReturned
                  /\ Len(groups) = 1
                  /\ Len(groups[1]) = 1
                  /\ groups[1][1].type.displayName = seq[1]

\* withDisplayNames has been applied twice to a record that holds one
\* component under two keys, and an element of it has been grouped under
\* the key processed last.
C26_Witness ==
    /\ applied = 2
    /\ Len(components) = 2
    /\ components[1].fn = components[2].fn
    /\ GroupReturned
    /\ seq = <<components[2].key>>

----------------------------------------------------------------------------
(* parseMarkdownContent: what becomes of each child *)

\* The call was made with children and has returned.
ParsedChildren == pstatus = "returned" /\ content # NoContent

IsHeading(node) == isValidElement(node) /\ node.type \in {"h1", "h2", "h3"}
IsParagraph(node) == isValidElement(node) /\ node.type = "p"

\* The place of the first child that satisfies Is, 0 when there is none.
FirstPlace(Is(_)) ==
    LET places == {n \in 1..Len(content) : Is(content[n])}
    IN  IF places = {} THEN 0 ELSE CHOOSE n \in places : \A m \in places : n <= m

\* The anchors with an href that stand directly inside an element.
DirectAnchors(el) ==
    LET ch == ChildrenOf(el)
        nodes == IF ch.kind = "array" THEN ch.items ELSE <<ch>>
    IN  SelectSeq(nodes, LAMBDA c : isValidElement(c) /\ c.type = "a" /\ HrefOf(c) # <<>>)

\* The child at place n is a source of links: a paragraph after the first
\* with an anchor, or an anchor with an href.
IsLinkSource(n) ==
    \/ /\ IsParagraph(content[n])
       /\ n # FirstPlace(IsParagraph)
       /\ DirectAnchors(content[n]) # <<>>
    \/ /\ isValidElement(content[n])
       /\ content[n].type = "a"
       /\ HrefOf(content[n]) # <<>>

\* The children that are neither title, description nor source of links,
\* with the strings that are not blank, in the order of the children.
LeftOver ==
    LET RECURSIVE from(_)
        from(n) ==
            IF n > Len(content) THEN <<>>
            ELSE (IF \/ /\ isValidElement(content[n])
                        /\ n # FirstPlace(IsHeading)
                        /\ n # FirstPlace(IsParagraph)
                        /\ ~IsLinkSource(n)
                     \/ /\ content[n].kind = "string"
                        /\ trim(content[n].value) # <<>>
                  THEN <<content[n]>> ELSE <<>>) \o from(n + 1)
    IN  from(1)

TextOfFirst(Is(_)) ==
    IF FirstPlace(Is) = 0 THEN <<>> ELSE <<extractTextContent(content[FirstPlace(Is)])>>

\* C27: when parseMarkdownContent has returned, the title is the text of the
\* first h1/h2/h3 and the description the text of the first p (neither is
\* overwritten by a later child), and `remaining` holds, in the order of the
\* children, exactly the children that are neither of these nor a source of
\* links (a later p with an anchor with href, an anchor with href), and is
\* undefined when there is none: each child is consumed in one way.
C27_EachChildOneWay ==
    ParsedChildren =>
        /\ result.title = TextOfFirst(IsHeading)
        /\ result.description = TextOfFirst(IsParagraph)
        /\ result.remaining = (IF LeftOver = <<>> THEN <<>> ELSE <<LeftOver>>)

\* The same, for children whose first heading and first paragraph have a
\* text.
OneWayWhenTextsNotEmpty ==
    (/\ TextOfFirst(IsHeading) # <<(<<>>)>>
     /\ TextOfFirst(IsParagraph) # <<(<<>>)>>) => C27_EachChildOneWay

\* The anchors with an href among the children from place n on, those of
\* the places left out apart: the anchors directly inside a paragraph and
\* the children that are such anchors.
RECURSIVE AnchorsFrom(_, _)
AnchorsFrom(n, out) ==
    IF n > Len(content) THEN <<>>
    ELSE (IF IsParagraph(content[n]) /\ n \notin out
          THEN [k \in 1..Len(DirectAnchors(content[n])) |->
                   LinkOf(extractTextContent(DirectAnchors(content[n])[k]),
                          HrefOf(DirectAnchors(content[n])[k]))]
          ELSE IF isValidElement(content[n]) /\ content[n].type = "a" /\ HrefOf(content[n]) # <<>>
          THEN <<LinkOf(extractTextContent(content[n]), HrefOf(content[n]))>>
          ELSE <<>>) \o AnchorsFrom(n + 1, out)

\* C28: when parseMarkdownContent has returned, `links` holds every anchor
\* with an href among the children, in document order: the anchors directly
\* inside any paragraph, the first one included, and the anchor children.
C28_LinksHoldEveryAnchor ==
    ParsedChildren => result.links = <<AnchorsFrom(1, {})>>

\* The same without the anchors of the paragraph taken as the description,
\* for children whose first heading and first paragraph have a text.
LinksOfLaterChildren ==
    (/\ ParsedChildren
     /\ TextOfFirst(IsHeading) # <<(<<>>)>>
     /\ TextOfFirst(IsParagraph) # <<(<<>>)>>)
        => result.links = <<AnchorsFrom(1, {FirstPlace(IsParagraph)})>>

----------------------------------------------------------------------------
(* Routing: content files and routes *)

\* The places of all entries below a listing, each the indexes that lead to
\* it from the content directory.
RECURSIVE PlacesBelow(_, _)
PlacesBelow(dir, place) ==
    UNION { {Append(place, n)} \cup PlacesBelow(dir[n].entries, Append(place, n)) :
            n \in 1..Len(dir) }

RECURSIVE EntryIn(_, _)
EntryIn(dir, place) ==
    IF Len(place) = 1 THEN dir[place[1]]
    ELSE EntryIn(dir[place[1]].entries, Tail(place))

\* The .mdx files of the content directory, at any depth.
MdxFiles ==
    { pl \in PlacesBelow(contentDir, <<>>) :
        /\ EntryIn(contentDir, pl).kind = "file"
        /\ Len(EntryIn(contentDir, pl).name) >= Len(Mdx)
        /\ \A k \in 1..Len(Mdx) :
              EntryIn(contentDir, pl).name[Len(EntryIn(contentDir, pl).name) - Len(Mdx) + k] = Mdx[k] }

\* The route of a file: the names of its directories, then its own name
\* without the last four characters.
RouteOf(pl) ==
    [k \in 1..Len(pl) |->
        LET name == EntryIn(contentDir, SubSeq(pl, 1, k)).name
        IN  IF k < Len(pl) THEN name ELSE SubSeq(name, 1, Len(name) - Len(Mdx))]

----------------------------------------------------------------------------
(* Header: the menu *)

\* The children of Header as React.Children.toArray lists them: null,
\* undefined and booleans are no children.
HeaderChildArray == toArray(headerChildren)

\* What the nav container shows: its children that are not undefined.
Shown == SelectSeq(rendered.navContainer, LAMBDA c : c # NoElement)

\* C30: the menu of a mounted Header is open exactly when the number of
\* clicks so far is odd (closed at first, flipped by each click); the nav
\* container carries exactly one of navContainerOpen and
\* navContainerClosed, the one of the state; and it shows the first two
\* children of Header and nothing else.
C30_MenuFollowsClicks ==
    hstatus = "mounted" =>
        /\ isMenuOpen <=> (clicks % 2 = 1)
        /\ Cardinality({k \in 1..Len(rendered.className) :
                           rendered.className[k] \in {"navContainerOpen", "navContainerClosed"}}) = 1
        /\ (\E k \in 1..Len(rendered.className) : rendered.className[k] = "navContainerOpen")
              <=> isMenuOpen
        /\ Shown = SubSeq(HeaderChildArray, 1, IF Len(HeaderChildArray) < 2
                                               THEN Len(HeaderChildArray) ELSE 2)

\* Two clicks have closed the menu of a Header with more than two children.
C30_Witness ==
    /\ hstatus = "mounted"
    /\ clicks = 2
    /\ ~isMenuOpen
    /\ Len(HeaderChildArray) > 2

====
